---- MODULE Spec2Model ----
(***************************************************************************)
(* State-machine model of the Epic Seven Armory detection engine.         *)
(*                                                                         *)
(*  - the gate poll loops of SiftMatching/window_monitor.py and            *)
(*    SiftMatching/monitor_gate.py (hysteresis gate, cooldown, window      *)
(*    loss, background detection threads, stop and process exit);          *)
(*  - the lazily loaded template cache of backend/draft_detection.py       *)
(*    under concurrent requests;                                           *)
(*  - find_e7_window and capture_window of SiftMatching/window_monitor.py  *)
(*    (the same code is in SiftMatching/unit_scanner.py): window geometry, *)
(*    the PrintWindow path with its GDI resources, the mss fallback;       *)
(*  - the two passes of SiftMatching/sift_core.run_sift_on_rois: the       *)
(*    banned classifier and the identity matcher;                          *)
(*  - the ROI calibration: scale_rois of window_monitor.py and of          *)
(*    detect_once.py, the file written by calibrate_rois.py and            *)
(*    edit_roi.py and read by load_roi_config, the startup of              *)
(*    window_monitor.main;                                                 *)
(*  - the writes of window_monitor's threads to sys.stdout;                *)
(*  - the anchor gate (gate_score) and the 'detected' record of            *)
(*    window_monitor.main._detect;                                         *)
(*  - the poll loop of SiftMatching/unit_scanner.py;                       *)
(*  - the request handlers POST /detect-once (backend/routes_detect.py)    *)
(*    and POST /auto_import/unit (backend/routes_auto_import.py).          *)
(*                                                                         *)
(* Gate scores are floats in [0,1] in the source; the model keeps them as  *)
(* integer hundredths (0.78 -> 78).  Time is the wall clock in seconds.    *)
(***************************************************************************)
EXTENDS Integers, Sequences, FiniteSets, TLC

(***************************************************************************)
(* Program constants                                                       *)
(***************************************************************************)
\* window_monitor.py
GATE_ENTER == 78
GATE_STAY == 70
HIT_REQ == 2
MISS_REQ == 3
COOL_DOWN_SEC == 5
\* monitor_gate.py
MG_GATE_ENTER == 86
MG_GATE_STAY == 80
MG_HIT_REQ == 3
MG_MISS_REQ == 3
MG_COOL_DOWN_SEC == 2
\* sift_core.py; saturation and value means are on the 0..255 scale,
\* REL_SAT_RATIO_THR (0.85) and BANNED_TM_THRESH (0.70) are in hundredths,
\* RED_RATIO_CTX_THR (0.035) is in thousandths, scores are match counts
MIN_INLIERS == 8
RED_RATIO_CTX_THR == 35
SAT_MEAN_ABS_THR == 80
VAL_MEAN_ABS_THR == 150
REL_SAT_RATIO_THR == 85
BANNED_TM_THRESH == 70
MIN_SCORE_MARGIN == 5

\* unit_scanner.py (ENTER_THRESH, HIT_REQ, COOL_DOWN_SEC, int(SCAN_FPS * 3))
US_ENTER_THRESH == 72
US_HIT_REQ == 4
US_COOL_DOWN_SEC == 4
US_SCORE_EMIT_EVERY == 6
\* window_monitor.py, _detect: `[...][:4]`
CLEAN_MAX == 4

(***************************************************************************)
(* Bounds of the model                                                     *)
(***************************************************************************)
\* largest number of results a detection pass hands to _detect
MaxResults == 5
\* the clock stops advancing at MaxTime
MaxTime == 6
\* hit and miss are not incremented beyond MaxCount
MaxCount == 3
\* number of detection passes one run may start
MaxPasses == 2
\* number of request handler threads of the Flask process
NumCalls == 2
\* number of slug folders under TEMPLATE_ROOT (each with a usable image)
NumSlugs == 2
\* number of ROIs (draft slots) a frame can have
MaxSlots == 2
\* largest width and height of the frames scale_rois is tried on exhaustively
MaxSide == 4
\* number of records the poll loop writes while one detection pass ends
MaxEmits == 2

Calls == 1..NumCalls
\* sorted(os.listdir(TEMPLATE_ROOT)), by position
Slugs == 1..NumSlugs

WM == "window_monitor"
MG == "monitor_gate"
US == "unit_scanner"

VARIABLES
    prog,               \* which monitor program this run is: WM, MG or US
    now,                \* time.time(), in seconds since the start of the run
    hit,                \* main: hit
    miss,               \* main: miss
    triggered,          \* main: triggered
    cooldown_until,     \* main: cooldown_until
    last_window_status, \* main: last_window_status ("none" models None)
    score,              \* main: score, the gate score evaluated last (-1: none yet)
    loop,               \* main: "starting" (before the loop), "running", "stopped" (KeyboardInterrupt),
                        \*   "crashed" (uncaught exception), "exited" (sys.exit(1)), "capturing"
                        \*   (unit_scanner between its 'capturing' and its 'captured' line)
    alive,              \* the interpreter process is alive (daemon threads can run)
    passes,             \* the detection threads started so far, in start order
    live_frame,         \* content of the file out/live_frame.png: 0 = absent, n = frame of pass n
    cycle,              \* what the last step was (how far the last poll cycle got)
    emitted,            \* the lines the last step wrote to stdout
    scores_seen,        \* history variable of SpecGate, see Record
    \* ---- backend/draft_detection.py, one Flask process (threaded=True) ----
    SIFT,               \* _SIFT is not None
    CACHE,              \* the keys of _CACHE, in insertion order
    dpc,                \* where each request handler thread is in detect_heroes
    load_next,          \* _ensure_loaded: index in sorted(os.listdir(TEMPLATE_ROOT)) of the next slug
    iter_len,           \* the dict iterator of `for slug, variants in _CACHE.items()`: len(_CACHE) at its creation
    iter_pos,           \*   and the number of entries it has yielded
    scored,             \* slug_scores: the slugs the call has scored
    \* ---- find_e7_window / capture_window, as seen by the last poll cycle ----
    win,                \* the game window the lookup of the cycle met (NoWindow before any lookup)
    cap,                \* the capture_window call of the cycle (NoCapture when the cycle made none):
                        \*   dims = (win_w, win_h), path = how the PrintWindow path ended,
                        \*   grab = how the mss grab ended ("none": not tried), src = the frame's origin
    held,               \* the GDI resources that call acquired and had not released when it ended
    \* ---- sift_core.run_sift_on_rois, one call ----
    rois,               \* the ROI list of the call: per slot the rectangle (x, y, w, h)
    rs_pc,              \* "idle", "metrics" (first loop), "decide" (second loop), "done", "raised",
                        \*   "emitted" (_detect has written the 'detected' line for the results)
    metrics,            \* metrics: per slot s_mean, v_mean, red_ratio_ctx, banned_text
    second_lowest,      \* second_lowest (-1: not computed)
    results,            \* results: per slot the result dict (slot, best, score, roi, banned)
    slot_match,         \* the matcher on the slot decided last: whether it ran, whether the ROI
                        \*   had descriptors, the good matches per hero and variant, v_best per
                        \*   hero, and the sorted `scores` list (hero ids)
    \* ---- the ROI calibration and its consumers ----
    scale_call,         \* one use of scale_rois: the ROI list, the base and current sizes, the
                        \*   scaled list of either implementation, the list scaled back
    cfg,                \* the file config/roi_config.json
    shot,               \* the calibration screenshot: its (width, height) or Unreadable
    base_w_h,           \* window_monitor.main: (base_w, base_h), NoBase for (None, None)
    rois_base,          \* window_monitor.main: rois_base
    gate_obs,           \* the anchor gate and the ENTER block of the last poll cycle
    tool,               \* the last run of calibrate_rois.py, edit_roi.py or load_roi_config
    loaded,             \* what load_roi_config returned last (NotLoaded, Raised)
    \* ---- sys.stdout of the window_monitor process ----
    stdout,             \* what was written to it, one entry per write() call, in order
    wr,                 \* per writing thread: pos = the print() calls it has finished,
                        \*   mid = it has written the text of the next one but not its end
    \* ---- the anchor gate ----
    anchor_call,        \* one evaluation of the anchor gate: its arguments, the template it
                        \*   compared with the frame, whether cv2.matchTemplate ran, the score
    \* ---- backend/routes_detect.py, POST /detect-once ----
    matches_json,       \* the file SiftMatching/out/matches.json: 0 = absent, c = the results
                        \*   the matcher of request c wrote
    rq,                 \* per request: pc, how its matcher subprocess ended (run), and the
                        \*   response (code, data = whose results the body holds, 0: none)
    \* ---- SiftMatching/unit_scanner.py (with the variables of the monitor run) ----
    score_emit_counter, \* main: score_emit_counter
    scan_log,           \* history of the scanner: qual = the evaluated frames that qualified in
                        \*   a row up to now, fresh = those since the last capture (both counted
                        \*   up to HIT_REQ), last_capture = the time of the last capture (-1: none),
                        \*   captures = the number of captures
    \* ---- window_monitor.main._detect ----
    event,              \* the 'detected' record written last: clean, banned (NoEvent: none)
    \* ---- the window-status lines of window_monitor and unit_scanner ----
    status_seen,        \* history: the window-status line written last ("none": none yet)
    \* ---- backend/routes_auto_import.py, POST /auto_import/unit ----
    image_stats,        \* the collection db["ImageStats"]: its documents, in insertion order
    imp                 \* per request handler thread: pc, the user and the hero of its request,
                        \*   existing = the _id find_one returned (0: None), the event it logged

gateVars == <<hit, miss, triggered, cooldown_until>>
monitorVars == <<prog, now, hit, miss, triggered, cooldown_until, last_window_status,
                 score, loop, alive, passes, live_frame, cycle, emitted, scores_seen>>
draftVars == <<SIFT, CACHE, dpc, load_next, iter_len, iter_pos, scored>>
captureVars == <<win, cap, held>>
siftVars == <<rois, rs_pc, metrics, second_lowest, results, slot_match>>
calibVars == <<scale_call, cfg, shot, base_w_h, rois_base, gate_obs, tool, loaded>>
streamVars == <<stdout, wr>>
anchorVars == <<anchor_call>>
\* the variables of the parts that stand apart from the monitor run
detectOnceVars == <<matches_json, rq>>
scannerVars == <<score_emit_counter, scan_log>>
eventVars == <<event>>
statusVars == <<status_seen>>
importVars == <<image_stats, imp>>
extVars == <<anchorVars, detectOnceVars, scannerVars, eventVars, statusVars, importVars>>
vars == <<monitorVars, draftVars, captureVars, siftVars, calibVars, streamVars, extVars>>

(***************************************************************************)
(* Per-program constants                                                   *)
(***************************************************************************)
Enter(p) == IF p = WM THEN GATE_ENTER ELSE MG_GATE_ENTER
Stay(p) == IF p = WM THEN GATE_STAY ELSE MG_GATE_STAY
HitReq(p) == IF p = WM THEN HIT_REQ ELSE MG_HIT_REQ
MissReq(p) == IF p = WM THEN MISS_REQ ELSE MG_MISS_REQ
CoolDown(p) == IF p = WM THEN COOL_DOWN_SEC ELSE MG_COOL_DOWN_SEC

\* The scores a frame can produce: one below the stay threshold, the stay
\* threshold itself (which lies inside [stay, enter)), and the enter threshold
\* itself.
Scores(p) == {Stay(p) - 1, Stay(p), Enter(p)}

LOST == -1
Max(a, b) == IF a >= b THEN a ELSE b
\* the history keeps the entries that, with the score of the current frame,
\* make up the longest run the gate counts
HistLen == Max(Max(HIT_REQ, MISS_REQ), Max(MG_HIT_REQ, MG_MISS_REQ)) - 1
Trim(s) == IF Len(s) > HistLen THEN Tail(s) ELSE s

(***************************************************************************)
(* The gate, line by line                                                  *)
(***************************************************************************)
\* faulty variant: the cooldown test is never true
InCooldown_Never(t, cu) == FALSE

\* `if time.time() < cooldown_until`
InCooldown(t, cu) == t < cu

\* faulty variant: the enter threshold is used in both gate states
Thresh_EnterOnly(p, trig) == Enter(p)

\* `thresh = GATE_STAY if triggered else GATE_ENTER`
Thresh(p, trig) == IF trig THEN Stay(p) ELSE Enter(p)

\* faulty variant: a frame below the threshold leaves hit as it is
HitAfter_NoReset(h, sc, th) == IF sc >= th THEN h + 1 ELSE h

\* `if score >= thresh: hit += 1; miss = 0  else: miss += 1; hit = 0`
HitAfter(h, sc, th) == IF sc >= th THEN h + 1 ELSE 0
MissAfter(m, sc, th) == IF sc >= th THEN 0 ELSE m + 1

\* faulty variant: the ENTER block does not test `not triggered`
GateEnter_NoLatch(p, trig, h) == h >= HitReq(p)

\* `if not triggered and hit >= HIT_REQ`
GateEnter(p, trig, h) == ~trig /\ h >= HitReq(p)

\* `if triggered and miss >= MISS_REQ` (evaluated after the ENTER block)
GateExit(p, trig, m) == trig /\ m >= MissReq(p)

\* faulty variant: the hit count survives a cycle that does not find the window
HitAfterLoss_Keep(h) == h

\* `hit = 0` in the branch `if result is None`
HitAfterLoss(h) == 0

\* `cooldown_until = time.time() + COOL_DOWN_SEC`
CooldownAfterExit(p, t) == t + CoolDown(p)

\* a detection thread right after threading.Thread(...).start():
\* frame is the snapshot it was handed, img the image it has loaded (0: none),
\* db its template catalog ("none" until compute_template_db has run, then
\* "ready" or "empty")
NewPass(n) == [frame |-> n, pc |-> "start", img |-> 0, db |-> "none"]

\* faulty variant: the status is written on every cycle
StatusLine_Always(old, new) == <<new>>

\* the window-status line of a cycle, emitted only when the status changed
StatusLine(old, new) == IF old # new THEN <<new>> ELSE <<>>

(***************************************************************************)
(* find_e7_window and capture_window (window_monitor.py; unit_scanner.py   *)
(* has the same two functions, statement for statement).                   *)
(***************************************************************************)
\* Rectangles as <<width, height>> (right - left, bottom - top): the game at
\* its normal size, and what GetWindowRect can give for a minimized window:
\* collapsed, collapsed in one direction, a small title-bar rectangle.
GameRect == <<1280, 720>>
IconRects == {<<0, 0>>, <<160, 0>>, <<160, 28>>}

\* no window with the title "Epic Seven" owned by EpicSeven.exe is visible
NoWindow == [present |-> FALSE, iconic |-> FALSE, rect |-> <<0, 0>>, restore |-> <<0, 0>>]

\* The game window as the OS reports it: rect is GetWindowRect, iconic is
\* IsIconic, restore is the normal-position rectangle of GetWindowPlacement
\* (the rectangle itself for a window that is not minimized).
Windows ==
    {NoWindow}
    \cup {[present |-> TRUE, iconic |-> TRUE, rect |-> r, restore |-> GameRect] : r \in IconRects}
    \cup {[present |-> TRUE, iconic |-> FALSE, rect |-> r, restore |-> r] : r \in {<<0, 0>>, GameRect}}

\* find_e7_window: None when no window was enumerated and when the rectangle
\* of the first one has `right <= left or bottom <= top`
FindE7Window(w) ==
    IF ~w.present THEN "none"
    ELSE IF w.rect[1] <= 0 \/ w.rect[2] <= 0 THEN "none"
    ELSE "found"

\* what the lookup of a cycle amounts to for main: err is an exception out of
\* find_e7_window / IsIconic, "minimized" is a found window with IsIconic
Lookup(w, err) ==
    IF err THEN "raise"
    ELSE IF FindE7Window(w) = "none" THEN "none"
    ELSE IF w.iconic THEN "minimized"
    ELSE "found"

\* win_w, win_h handed to capture_window: right - left, bottom - top, replaced
\* by the restore rectangle when the window is minimized and
\* GetWindowPlacement did not raise (`except Exception: pass`)
CaptureDims(w, placement) ==
    IF w.iconic /\ placement = "ok" THEN w.restore ELSE w.rect

\* the statements of the PrintWindow path of capture_window, in order
CaptureSteps == <<"GetWindowDC", "CreateDCFromHandle", "CreateCompatibleDC",
                  "CreateCompatibleBitmap", "SelectObject", "PrintWindow",
                  "GetBitmapBits", "DeleteObject", "save_dc.DeleteDC",
                  "mfc_dc.DeleteDC", "ReleaseDC">>
Resources == {"hwnd_dc", "mfc_dc", "save_dc", "bitmap"}

\* the resource a statement acquires / releases ("" for none)
Acquires(step) ==
    CASE step = "GetWindowDC" -> "hwnd_dc"
      [] step = "CreateDCFromHandle" -> "mfc_dc"
      [] step = "CreateCompatibleDC" -> "save_dc"
      [] step = "CreateCompatibleBitmap" -> "bitmap"
      [] OTHER -> ""
Releases(step) ==
    CASE step = "DeleteObject" -> "bitmap"
      [] step = "save_dc.DeleteDC" -> "save_dc"
      [] step = "mfc_dc.DeleteDC" -> "mfc_dc"
      [] step = "ReleaseDC" -> "hwnd_dc"
      [] OTHER -> ""

\* The statements that ran to their end in one call: fault is the position in
\* CaptureSteps of the statement that raised (0: none raised), pw the value
\* PrintWindow returned.  The bitmap is read only `if result`; the four
\* releases are written out on both branches and nowhere else (`except
\* Exception: pass` releases nothing).
StepsRun(fault, pw) ==
    {k \in 1..Len(CaptureSteps) :
        /\ fault = 0 \/ k < fault
        /\ CaptureSteps[k] = "GetBitmapBits" => pw # 0}
StepIndex(name) == CHOOSE k \in 1..Len(CaptureSteps) : CaptureSteps[k] = name
\* a statement that is not executed cannot raise, and PrintWindow returns no
\* value (pw = 0 then) unless it ran to its end
FaultPossible(fault, pw) ==
    IF fault = 0 THEN TRUE
    ELSE /\ CaptureSteps[fault] = "GetBitmapBits" => pw # 0
         /\ fault <= StepIndex("PrintWindow") => pw = 0
StillHeld(fault, pw) ==
    {r \in Resources :
        /\ \E k \in StepsRun(fault, pw) : Acquires(CaptureSteps[k]) = r
        /\ ~\E k \in StepsRun(fault, pw) : Releases(CaptureSteps[k]) = r}

\* How the `try` block of capture_window ends: it returns the bitmap
\* ("image"), falls through after PrintWindow returned 0 ("zero"), or an
\* exception of one of its statements is swallowed ("raise").
PrintWindowPath(fault, pw) ==
    IF fault # 0 THEN "raise"
    ELSE IF pw # 0 THEN "image"
    ELSE "zero"

\* faulty variant: a failed PrintWindow path is not followed by the screen grab
CaptureSource_NoFallback(path, grab) ==
    IF path = "image" THEN "printwindow" ELSE "raise"

\* Where the frame capture_window returns comes from: the PrintWindow bitmap,
\* or else the mss grab at GetWindowRect's position, whose exceptions
\* (grab = "raise") leave capture_window.
CaptureSource(path, grab) ==
    IF path = "image" THEN "printwindow"
    ELSE IF grab = "ok" THEN "mss"
    ELSE "raise"

\* a cycle that did not call capture_window
NoCapture == [dims |-> <<0, 0>>, path |-> "none", grab |-> "none", src |-> "none"]

(***************************************************************************)
(* sift_core.py: the template catalog.                                     *)
(***************************************************************************)
\* the catalog compute_template_db returns: hero ids in ascending order, and
\* the number of variants (skins) of each
HeroIds == <<"A", "B">>
Heroes == {HeroIds[k] : k \in 1..Len(HeroIds)}
HeroRank(h) == CHOOSE k \in 1..Len(HeroIds) : HeroIds[k] = h
VariantCount(h) == IF h = "A" THEN 2 ELSE 1
\* best_id = None
None == "None"

\* the slot decided last was banned, or no slot was decided yet
NoMatch == [ran |-> FALSE, des |-> FALSE, good |-> [h \in Heroes |-> <<>>],
            v_best |-> [h \in Heroes |-> 0], ranking |-> <<>>]

(***************************************************************************)
(* The ROI calibration: rectangles are (x, y, w, h) in pixels, sizes are    *)
(* (width, height).                                                        *)
(***************************************************************************)
\* the calibration screenshot is 1000 x 800
CalibFrame == <<1000, 800>>
\* the portrait of draft slot k on it, and the same portrait with no width
SlotRoi(k) == <<10 + 60 * (k - 1), 10, 50, 50>>
NarrowRoi(k) == <<10 + 60 * (k - 1), 10, 0, 50>>

\* config/roi_config.json.  exists: the file is there; valid: it parses as a
\* JSON object with a "rois" key; screen_path: NoKey or the path of the
\* calibration screenshot; rois: the JSON array of [x, y, w, h] arrays;
\* base_size: the JSON array under that key (<<>>: no such key)
NoKey == "no key"
ScreenPath == "screen.png"
CfgFile(sp, rs, bs) ==
    [exists |-> TRUE, valid |-> TRUE, screen_path |-> sp, rois |-> rs, base_size |-> bs]
MissingCfg == [exists |-> FALSE, valid |-> FALSE, screen_path |-> NoKey, rois |-> <<>>,
               base_size |-> <<>>]
InvalidCfg == [MissingCfg EXCEPT !.exists = TRUE]
DefaultRois == [k \in 1..MaxSlots |-> SlotRoi(k)]
\* the file at screen_path as cv2.imread sees it: its (width, height), or
\* Unreadable (imread returns None)
Unreadable == <<0, 0>>
\* base_w, base_h = None, None
NoBase == <<0, 0>>
\* what the gate of a cycle did: mode = how the anchor was matched ("none":
\* the cycle did not reach the gate), dims = (win_w, win_h), rois = the ROI
\* list handed to the detection thread the cycle started (<<>>: none started)
NoGate == [mode |-> "none", dims |-> <<0, 0>>, rois |-> <<>>]
\* values as Python holds them: a list and a tuple of the same items differ
PyList(items) == [py |-> "list", items |-> items]
PyTuple(items) == [py |-> "tuple", items |-> items]
\* load_roi_config was not called; it raised
NotLoaded == [py |-> "none", items |-> <<>>]
Raised == [py |-> "raise", items |-> <<>>]
\* no calibration tool has run yet
NoTool == [op |-> "none", slot |-> 0, sel |-> <<>>, out |-> "none"]

\* no scale_rois call was made yet
NoScale == [pc |-> "idle", rois |-> <<>>, base |-> <<0, 0>>, cur |-> <<0, 0>>,
            out |-> <<>>, once |-> <<>>, back |-> <<>>]

(***************************************************************************)
(* The threads of window_monitor that write to sys.stdout.                 *)
(***************************************************************************)
Writers == {"main", "detect"}

\* no evaluation of the anchor gate yet
NoAnchorCall == [mode |-> "none", frame |-> <<0, 0>>, anchor |-> <<0, 0>>, base |-> <<0, 0>>,
                 tmpl |-> <<0, 0>>, matched |-> FALSE, score |-> 0]

\* a handler thread that serves no import request
NoImport == [pc |-> "idle", user |-> "none", unit |-> None, existing |-> 0, event |-> "none"]

\* no 'detected' record yet
NoEvent == [status |-> "none", clean |-> <<>>, banned |-> None]

\* a request to POST /detect-once that has not arrived
NoRequest == [pc |-> "idle", run |-> "none", code |-> 0, data |-> 0]

\* the parts that stand apart from the monitor run, before their first step
InitExt ==
    /\ anchor_call = NoAnchorCall
    /\ matches_json = 0
    /\ rq = [c \in Calls |-> NoRequest]
    /\ score_emit_counter = 0
    /\ scan_log = [qual |-> 0, fresh |-> 0, last_capture |-> -1, captures |-> 0]
    /\ event = NoEvent
    /\ status_seen = "none"
    /\ image_stats = <<>>
    /\ imp = [c \in Calls |-> NoImport]

(***************************************************************************)
(* Initial state: the monitor has loaded its configuration, has emitted    *)
(* 'started' (window_monitor) and is about to run its first poll cycle.    *)
(***************************************************************************)
Init ==
    /\ prog \in {WM, MG}
    /\ now = 0
    /\ hit = 0
    /\ miss = 0
    /\ triggered = FALSE
    /\ cooldown_until = 0
    /\ last_window_status = "none"
    /\ score = -1
    /\ loop = "running"
    /\ alive = TRUE
    /\ passes = <<>>
    /\ live_frame = 0
    /\ cycle = "init"
    /\ emitted = IF prog = WM THEN <<"started">> ELSE <<>>
    /\ scores_seen = <<>>
    /\ SIFT = FALSE
    /\ CACHE = <<>>
    /\ dpc = [c \in Calls |-> "idle"]
    /\ load_next = [c \in Calls |-> 0]
    /\ iter_len = [c \in Calls |-> 0]
    /\ iter_pos = [c \in Calls |-> 0]
    /\ scored = [c \in Calls |-> {}]
    /\ win = NoWindow
    /\ cap = NoCapture
    /\ held = {}
    /\ rois = <<>>
    /\ rs_pc = "idle"
    /\ metrics = <<>>
    /\ second_lowest = -1
    /\ results = <<>>
    /\ slot_match = NoMatch
    /\ scale_call = NoScale
    /\ cfg = CfgFile(ScreenPath, DefaultRois, CalibFrame)
    /\ shot = CalibFrame
    /\ base_w_h = CalibFrame
    /\ rois_base = DefaultRois
    /\ gate_obs = NoGate
    /\ tool = NoTool
    /\ loaded = NotLoaded
    /\ stdout = <<>>
    /\ wr = [t \in Writers |-> [pos |-> 0, mid |-> FALSE]]
    /\ InitExt

(***************************************************************************)
(* The part of a poll cycle from the threshold choice to the gate exit,    *)
(* shared by window_monitor.main and monitor_gate.main.  `pre` are the     *)
(* lines the cycle has already written, sc is the evaluated score.         *)
(***************************************************************************)
GateStep(sc, pre) ==
    LET th == Thresh(prog, triggered)
        h2 == HitAfter(hit, sc, th)
        m2 == MissAfter(miss, sc, th)
        enter == GateEnter(prog, triggered, h2)
        trig2 == triggered \/ enter
        exit == GateExit(prog, trig2, m2)
    IN  /\ h2 <= MaxCount
        /\ m2 <= MaxCount
        /\ enter => Len(passes) < MaxPasses
        /\ score' = sc
        /\ hit' = h2
        /\ miss' = m2
        /\ triggered' = (trig2 /\ ~exit)
        /\ cooldown_until' = IF exit THEN CooldownAfterExit(prog, now) ELSE cooldown_until
        /\ passes' = IF enter THEN Append(passes, NewPass(Len(passes) + 1)) ELSE passes
        /\ emitted' = IF enter /\ prog = WM THEN pre \o <<"triggered">> ELSE pre
        /\ cycle' = "gate"

(***************************************************************************)
(* One cycle of window_monitor.main's `while True`.                        *)
(*   lookup: what find_e7_window does ("raise", "none", "found",           *)
(*           "minimized": found and IsIconic)                              *)
(*   capres: whether capture_window returns a frame ("ok") or raises       *)
(*   gate:   whether the gate match returns a score or raises              *)
(*   g:      the gate score of the frame                                   *)
(***************************************************************************)
WMCycle(lookup, capres) ==
    /\ prog = WM
    /\ loop = "running"
    /\ alive
    /\ IF InCooldown(now, cooldown_until)
       THEN /\ cycle' = "cooldown"
            /\ emitted' = <<>>
            /\ UNCHANGED <<prog, now, gateVars, last_window_status, score, loop, alive,
                           passes, live_frame>>
       ELSE IF lookup = "raise"
            THEN \* find_e7_window is not inside any try block but the outer one
                 /\ loop' = "crashed"
                 /\ cycle' = "lookup_error"
                 /\ emitted' = <<>>
                 /\ UNCHANGED <<prog, now, gateVars, last_window_status, score, alive,
                                passes, live_frame>>
            ELSE IF lookup = "none"
            THEN /\ emitted' = StatusLine(last_window_status, "window_not_found")
                 /\ last_window_status' = "window_not_found"
                 /\ hit' = HitAfterLoss(hit)
                 /\ miss' = 0
                 /\ triggered' = FALSE
                 /\ cycle' = "window_not_found"
                 /\ UNCHANGED <<prog, now, cooldown_until, score, loop, alive,
                                passes, live_frame>>
            ELSE LET new_status == IF lookup = "minimized" THEN "window_minimized"
                                                           ELSE "window_found"
                     pre == StatusLine(last_window_status, new_status)
                 IN  /\ last_window_status' = new_status
                     /\ IF capres = "raise"
                        THEN /\ emitted' = pre \o <<"capture_error">>
                             /\ cycle' = "capture_error"
                             /\ UNCHANGED <<prog, now, gateVars, score, loop, alive,
                                            passes, live_frame>>
                        ELSE \E gate \in {"ok", "raise"} :
                             IF gate = "raise"
                             THEN \* gate_score / matchTemplate are not guarded
                                  /\ loop' = "crashed"
                                  /\ cycle' = "gate_error"
                                  /\ emitted' = pre
                                  /\ UNCHANGED <<prog, now, gateVars, score, alive,
                                                 passes, live_frame>>
                             ELSE \E g \in Scores(WM) :
                                  /\ GateStep(g, pre)
                                  /\ UNCHANGED <<prog, now, loop, alive, live_frame>>

\* a cycle with any window and any outcome of the capture
WMPollCycle ==
    \E lookup \in {"raise", "none", "found", "minimized"}, capres \in {"ok", "raise"} :
        WMCycle(lookup, capres)

(***************************************************************************)
(* One cycle of monitor_gate.main's `while True`: no window lookup; the    *)
(* anchor region is grabbed and matched without any guard, and on ENTER    *)
(* the full screen is grabbed before the thread is started.                *)
(*   grab: whether grab_roi / gate_score return or raise                   *)
(*   full: whether grab_fullscreen returns or raises                       *)
(***************************************************************************)
MGPollCycle ==
    /\ prog = MG
    /\ loop = "running"
    /\ alive
    /\ IF InCooldown(now, cooldown_until)
       THEN /\ cycle' = "cooldown"
            /\ emitted' = <<>>
            /\ UNCHANGED <<prog, now, gateVars, last_window_status, score, loop, alive,
                           passes, live_frame>>
       ELSE \E grab \in {"ok", "raise"} :
            IF grab = "raise"
            THEN /\ loop' = "crashed"
                 /\ cycle' = "gate_error"
                 /\ emitted' = <<>>
                 /\ UNCHANGED <<prog, now, gateVars, last_window_status, score, alive,
                                passes, live_frame>>
            ELSE \E g \in Scores(MG), full \in {"ok", "raise"} :
                 LET h2 == HitAfter(hit, g, Thresh(MG, triggered))
                 IN  IF GateEnter(MG, triggered, h2) /\ full = "raise"
                     THEN \* grab_fullscreen raises between `triggered = True` and the
                          \* thread start: main dies and its locals with it
                          /\ h2 <= MaxCount
                          /\ loop' = "crashed"
                          /\ cycle' = "snapshot_error"
                          /\ emitted' = <<>>
                          /\ UNCHANGED <<prog, now, gateVars, last_window_status, score,
                                         alive, passes, live_frame>>
                     ELSE /\ full = "ok"
                          /\ GateStep(g, <<>>)
                          /\ UNCHANGED <<prog, now, last_window_status, loop, alive,
                                         live_frame>>

(***************************************************************************)
(* Time passes (the sleeps of the loop, the work of a cycle).              *)
(***************************************************************************)
Tick ==
    /\ alive
    /\ now < MaxTime
    /\ now' = now + 1
    /\ cycle' = "tick"
    /\ emitted' = <<>>
    /\ UNCHANGED <<prog, gateVars, last_window_status, score, loop, alive, passes,
                   live_frame>>

(***************************************************************************)
(* The detection thread: window_monitor.main._detect -> run_detection ->   *)
(* sift_core.run_sift_on_rois (monitor_gate: on_trigger).  Threads are     *)
(* daemon threads: they run only while the process is alive.               *)
(***************************************************************************)
SetPass(i, r) == [passes EXCEPT ![i] = r]
threadFrame == <<prog, now, gateVars, last_window_status, score, loop, alive>>

\* cv2.imwrite(str(tmp), window_bgr): the frame goes to out/live_frame.png
SavedFile(file, frame) == frame

\* load_image_gray(screen_path): the pass reads back whatever the file holds
LoadedImage(file, frame) == file

\* faulty variant: an empty catalog is not rejected
CatalogUsable_NoCheck(db) == TRUE

\* `if not db: raise RuntimeError(...)` at the end of compute_template_db:
\* db is "ready" (at least one entry) or "empty"
CatalogUsable(db) == db = "ready"

\* faulty variant: the pass takes no catalog of its own
ComputeTemplateDb_Skip(tmpl) == "none"

\* `db = compute_template_db(templates_dir)` in run_sift_on_rois: the catalog
\* of this pass, read from the directory as it is now
ComputeTemplateDb(tmpl) == IF tmpl THEN "ready" ELSE "empty"

\* faulty variant: the threads outlive the interpreter's exit
ThreadRuns_Always(a) == TRUE

\* threading.Thread(..., daemon=True): the thread runs only while the
\* interpreter is alive and does not keep it alive
ThreadRuns(a) == a

\* the line _detect writes for a pass that ended (monitor_gate writes no JSON)
ResultLine(p, outcome) ==
    IF p = WM THEN <<IF outcome = "detected" THEN "detected" ELSE "detection_error">>
    ELSE <<>>

DetectSave(i) ==
    /\ ThreadRuns(alive)
    /\ passes[i].pc = "start"
    /\ live_frame' = SavedFile(live_frame, passes[i].frame)
    /\ passes' = SetPass(i, [passes[i] EXCEPT !.pc = "saved"])
    /\ cycle' = "thread"
    /\ emitted' = <<>>
    /\ UNCHANGED threadFrame

DetectLoad(i) ==
    /\ ThreadRuns(alive)
    /\ passes[i].pc = "saved"
    /\ passes' = SetPass(i, [passes[i] EXCEPT !.pc = "loaded",
                                              !.img = LoadedImage(live_frame, passes[i].frame)])
    /\ cycle' = "thread"
    /\ emitted' = <<>>
    /\ UNCHANGED <<threadFrame, live_frame>>

\* The rest of run_sift_on_rois and of _detect, all on data local to the thread:
\* db = compute_template_db(templates_dir), the two passes over the ROIs, the
\* result line.
\*   tmpl:  whether the templates directory yields at least one usable template
\*   match: whether classification and matching return or raise
DetectRun(i) ==
    /\ ThreadRuns(alive)
    /\ passes[i].pc = "loaded"
    /\ \E tmpl \in BOOLEAN, match \in {"ok", "raise"} :
         LET db == ComputeTemplateDb(tmpl)
             outcome == IF CatalogUsable(db) /\ match = "ok" THEN "detected" ELSE "error"
         IN  /\ passes' = SetPass(i, [passes[i] EXCEPT !.pc = outcome, !.db = db])
             /\ emitted' = ResultLine(prog, outcome)
    /\ cycle' = "thread"
    /\ UNCHANGED <<threadFrame, live_frame>>

DetectThread ==
    \E i \in 1..Len(passes) :
        \/ DetectSave(i)
        \/ DetectLoad(i)
        \/ DetectRun(i)

(***************************************************************************)
(* The external stop signal and the end of the process.                    *)
(***************************************************************************)
\* `except KeyboardInterrupt: _emit({"status": "stopped"})`
Stop ==
    /\ alive
    /\ loop = "running"
    /\ loop' = "stopped"
    /\ cycle' = "stop"
    /\ emitted' = IF prog = WM THEN <<"stopped">> ELSE <<>>
    /\ UNCHANGED <<prog, now, gateVars, last_window_status, score, alive, passes,
                   live_frame>>

\* main has returned (or died of an uncaught exception): the interpreter exits
\* and abandons the daemon threads that are still running
Exit ==
    /\ alive
    /\ loop \notin {"starting", "running", "capturing"}
    /\ alive' = FALSE
    /\ cycle' = "exit"
    /\ emitted' = <<>>
    /\ UNCHANGED <<prog, now, gateVars, last_window_status, score, loop, passes,
                   live_frame>>

PollCycle == WMPollCycle \/ MGPollCycle

(***************************************************************************)
(* History of the gate: the scores evaluated since `triggered` last        *)
(* changed, oldest first, with LOST where the window was reported missing  *)
(* in between.  It records what the poll cycle of the step did.            *)
(***************************************************************************)
SeenAfterScore(seen, sc, trig, trig2) ==
    IF trig # trig2 THEN <<>> ELSE Trim(Append(seen, sc))
SeenAfterLoss(seen, trig) ==
    IF trig THEN <<>>
    ELSE IF seen = <<>> \/ seen[Len(seen)] = LOST THEN seen
    ELSE Trim(Append(seen, LOST))
Record ==
    scores_seen' =
        IF cycle' = "gate" THEN SeenAfterScore(scores_seen, score', triggered, triggered')
        ELSE IF cycle' = "window_not_found" THEN SeenAfterLoss(scores_seen, triggered)
        ELSE scores_seen

\* the poll loop alone, with its history: the gate, the clock, the window
NextGate ==
    /\ \/ PollCycle /\ Record
       \/ Tick /\ UNCHANGED scores_seen
    /\ UNCHANGED <<draftVars, captureVars, siftVars, calibVars, streamVars, extVars>>
SpecGate == Init /\ [][NextGate]_vars

\* the monitor process within one second of the clock: the poll loop, the
\* detection threads, the stop signal and the exit
NextProcess ==
    /\ PollCycle \/ DetectThread \/ Stop \/ Exit
    /\ UNCHANGED <<scores_seen, draftVars, captureVars, siftVars, calibVars, streamVars, extVars>>
SpecProcess == Init /\ [][NextProcess]_vars

\* the same for a run of window_monitor that captures the game window
\* whenever it is there
InitMonitor == Init /\ prog = WM
NextMonitor ==
    /\ \/ \E lookup \in {"none", "found"} : WMCycle(lookup, "ok")
       \/ DetectThread
       \/ Stop
       \/ Exit
    /\ UNCHANGED <<scores_seen, draftVars, captureVars, siftVars, calibVars, streamVars, extVars>>
SpecMonitor == InitMonitor /\ [][NextMonitor]_vars

(***************************************************************************)
(* backend/draft_detection.py: detect_heroes called by the request handler *)
(* threads of the Flask process.  _SIFT and _CACHE are module globals; no  *)
(* lock guards them.                                                       *)
(***************************************************************************)
InSeq(x, seq) == \E k \in 1..Len(seq) : seq[k] = x

\* `_CACHE[slug] = variants`: a new key goes to the end, a key already there
\* keeps its place
CacheSet(cache, slug) == IF InSeq(slug, cache) THEN cache ELSE Append(cache, slug)

\* `if _CACHE: return` in _ensure_loaded: a non-empty dict counts as loaded
CacheLoaded(cache) == cache # <<>>

\* POST /draft/upload reaches detect_heroes(p, top_k=4)
DetectHeroes(c) ==
    /\ dpc[c] \in {"idle", "done", "failed"}
    /\ dpc' = [dpc EXCEPT ![c] = "ensure"]
    /\ scored' = [scored EXCEPT ![c] = {}]
    /\ UNCHANGED <<SIFT, CACHE, load_next, iter_len, iter_pos>>

\* _ensure_loaded up to the for loop over sorted(os.listdir(TEMPLATE_ROOT))
EnsureLoaded(c) ==
    /\ dpc[c] = "ensure"
    /\ SIFT' = TRUE
    /\ IF CacheLoaded(CACHE)
       THEN /\ dpc' = [dpc EXCEPT ![c] = "check"]
            /\ UNCHANGED load_next
       ELSE /\ dpc' = [dpc EXCEPT ![c] = "loading"]
            /\ load_next' = [load_next EXCEPT ![c] = 1]
    /\ UNCHANGED <<CACHE, iter_len, iter_pos, scored>>

\* one iteration of that loop (the images of one slug are read and their
\* descriptors computed, then `_CACHE[slug] = variants`), or its end
LoadSlug(c) ==
    /\ dpc[c] = "loading"
    /\ IF load_next[c] <= NumSlugs
       THEN /\ CACHE' = CacheSet(CACHE, load_next[c])
            /\ load_next' = [load_next EXCEPT ![c] = @ + 1]
            /\ UNCHANGED dpc
       ELSE /\ dpc' = [dpc EXCEPT ![c] = "check"]
            /\ UNCHANGED <<CACHE, load_next>>
    /\ UNCHANGED <<SIFT, iter_len, iter_pos, scored>>

\* detect_heroes from `if not _CACHE` to the creation of the iterator of
\* `for slug, variants in _CACHE.items()`;
\*   scene: whether the screenshot can be read and has descriptors
ReadScene(c) ==
    /\ dpc[c] = "check"
    /\ \E scene \in {"ok", "none"} :
         IF CACHE = <<>> \/ scene = "none"
         THEN /\ dpc' = [dpc EXCEPT ![c] = "done"]
              /\ UNCHANGED <<iter_len, iter_pos>>
         ELSE /\ dpc' = [dpc EXCEPT ![c] = "scoring"]
              /\ iter_len' = [iter_len EXCEPT ![c] = Len(CACHE)]
              /\ iter_pos' = [iter_pos EXCEPT ![c] = 0]
    /\ UNCHANGED <<SIFT, CACHE, load_next, scored>>

\* one step of the dict iterator and the loop body: the iterator raises
\* RuntimeError (dictionary changed size during iteration) when len(_CACHE)
\* is not what it was at its creation; otherwise it yields the next entry,
\* which is scored, or ends the loop
ScoreNext(c) ==
    /\ dpc[c] = "scoring"
    /\ IF Len(CACHE) # iter_len[c]
       THEN /\ dpc' = [dpc EXCEPT ![c] = "failed"]
            /\ UNCHANGED <<iter_pos, scored>>
       ELSE IF iter_pos[c] < Len(CACHE)
       THEN /\ scored' = [scored EXCEPT ![c] = @ \cup {CACHE[iter_pos[c] + 1]}]
            /\ iter_pos' = [iter_pos EXCEPT ![c] = @ + 1]
            /\ UNCHANGED dpc
       ELSE /\ dpc' = [dpc EXCEPT ![c] = "done"]
            /\ UNCHANGED <<iter_pos, scored>>
    /\ UNCHANGED <<SIFT, CACHE, load_next, iter_len>>

NextDraft ==
    /\ \E c \in Calls :
          \/ DetectHeroes(c)
          \/ EnsureLoaded(c)
          \/ LoadSlug(c)
          \/ ReadScene(c)
          \/ ScoreNext(c)
    /\ UNCHANGED <<monitorVars, captureVars, siftVars, calibVars, streamVars, extVars>>
SpecDraft == Init /\ [][NextDraft]_vars

(***************************************************************************)
(* window_monitor's poll cycle with its window and its capture spelled out:*)
(*   w:         the game window at the time of the lookup (NoWindow when   *)
(*              the cycle makes no lookup or the lookup raises)            *)
(*   err:       find_e7_window / IsIconic raise                            *)
(*   placement: whether GetWindowPlacement returns or raises               *)
(*   fault, pw: see StepsRun                                               *)
(*   grab:      whether GetWindowRect and the mss grab return or raise     *)
(* Inputs that are not consulted are held at one value.                    *)
(* find_e7_window returns None without win32, so main calls capture_window *)
(* only with HAS_WIN32 and a window handle.                                *)
(***************************************************************************)
WMCaptureCycle ==
    \E w \in Windows, err \in BOOLEAN :
        LET lookup == Lookup(w, err)
            cooling == InCooldown(now, cooldown_until)
        IN  /\ err => w = NoWindow
            /\ cooling => w = NoWindow
            /\ win' = w
            /\ IF cooling \/ lookup \notin {"found", "minimized"}
               THEN /\ WMCycle(lookup, "ok")
                    /\ cap' = NoCapture
                    /\ held' = {}
               ELSE \E placement \in {"ok", "raise"}, fault \in 0..Len(CaptureSteps),
                       pw \in {0, 1}, grab \in {"ok", "raise"} :
                        LET path == PrintWindowPath(fault, pw)
                            src == CaptureSource(path, grab)
                        IN  /\ FaultPossible(fault, pw)
                            /\ ~w.iconic => placement = "ok"
                            /\ path = "image" => grab = "ok"
                            /\ WMCycle(lookup, IF src = "raise" THEN "raise" ELSE "ok")
                            /\ cap' = [dims |-> CaptureDims(w, placement), path |-> path,
                                       grab |-> IF path = "image" THEN "none" ELSE grab,
                                       src |-> src]
                            /\ held' = StillHeld(fault, pw)

NextCapture ==
    /\ WMCaptureCycle
    /\ UNCHANGED <<scores_seen, draftVars, siftVars, calibVars, streamVars, extVars>>
SpecCapture == Init /\ [][NextCapture]_vars

(***************************************************************************)
(* sift_core.py: the banned classifier and the identity matcher.           *)
(***************************************************************************)
\* sorted(sat_values)
RECURSIVE SortedAsc(_)
InsertAsc(x, ss) ==
    LET k == Cardinality({i \in 1..Len(ss) : ss[i] <= x})
    IN  SubSeq(ss, 1, k) \o <<x>> \o SubSeq(ss, k + 1, Len(ss))
SortedAsc(seq) ==
    IF seq = <<>> THEN <<>>
    ELSE InsertAsc(seq[Len(seq)], SortedAsc(SubSeq(seq, 1, Len(seq) - 1)))

SatValues(ms) == [k \in 1..Len(ms) |-> ms[k].s_mean]

\* faulty variant: the lowest value is taken
SecondLowest_Lowest(sat_values) == SortedAsc(sat_values)[1]

\* `second_lowest = sat_sorted[1] if len(sat_sorted) >= 2 else sat_sorted[0]`
\* (Python indexes from 0); only called with at least one value
SecondLowest(sat_values) ==
    LET sat_sorted == SortedAsc(sat_values)
    IN  IF Len(sat_sorted) >= 2 THEN sat_sorted[2] ELSE sat_sorted[1]

\* `rel_dim = (s_mean <= REL_SAT_RATIO_THR * second_lowest)`, in hundredths
RelDim(m, sl) == 100 * m.s_mean <= REL_SAT_RATIO_THR * sl

\* faulty variant: one kind of dimming is enough
Banned_AbsOrRel(m, sl) ==
    LET abs_dim == m.s_mean <= SAT_MEAN_ABS_THR /\ m.v_mean <= VAL_MEAN_ABS_THR
        rel_dim == RelDim(m, sl)
    IN  m.banned_text >= BANNED_TM_THRESH
        \/ (m.red_ratio_ctx >= RED_RATIO_CTX_THR /\ (abs_dim \/ rel_dim))

\* abs_dim, rel_dim, dimmed, ribbonish, banned of the second loop
Banned(m, sl) ==
    LET abs_dim == m.s_mean <= SAT_MEAN_ABS_THR /\ m.v_mean <= VAL_MEAN_ABS_THR
        rel_dim == RelDim(m, sl)
        dimmed == abs_dim /\ rel_dim
        ribbonish == m.red_ratio_ctx >= RED_RATIO_CTX_THR
    IN  m.banned_text >= BANNED_TM_THRESH \/ (ribbonish /\ dimmed)

\* faulty variant: the matcher runs on every slot
MatcherRuns_Always(banned) == TRUE

\* `if not banned:`
MatcherRuns(banned) == ~banned

\* faulty variant: the count of good matches is returned without the
\* descriptor test
ScoreTemplateVsRoi_NoTest(des, good) == good

\* score_template_vs_roi: 0 when the ROI has no descriptors or fewer than two
\* keypoints (des = FALSE), else the number of good matches
ScoreTemplateVsRoi(des, good) == IF ~des THEN 0 ELSE good

\* faulty variant: the score of the last variant is kept
VBest_Last(des, goods) == ScoreTemplateVsRoi(des, goods[Len(goods)])

\* `v_best = 0; for des in rec["variants"]: ... if s > v_best: v_best = s`
VBest(des, goods) ==
    LET ss == {ScoreTemplateVsRoi(des, goods[k]) : k \in 1..Len(goods)}
    IN  IF \E x \in ss : x > 0 THEN CHOOSE x \in ss : \A y \in ss : y <= x ELSE 0

\* `if v_best >= MIN_INLIERS: scores.append((v_best, hero_id))`
Kept(vb) == {h \in Heroes : vb[h] >= MIN_INLIERS}

\* scores.sort(reverse=True) on (v_best, hero_id) tuples: g comes before h
Before(vb, g, h) ==
    vb[g] > vb[h] \/ (vb[g] = vb[h] /\ HeroRank(g) > HeroRank(h))
Ranked(vb) ==
    [k \in 1..Cardinality(Kept(vb)) |->
        CHOOSE h \in Kept(vb) : Cardinality({g \in Kept(vb) : Before(vb, g, h)}) = k - 1]

\* faulty variant: the top entry is accepted whatever the runner-up
Confident_NoMargin(best_score, runner_up) == TRUE

\* `margin = best_score - scores[1][0]; if margin < MIN_SCORE_MARGIN: best_id = None`
Confident(best_score, runner_up) == ~(best_score - runner_up < MIN_SCORE_MARGIN)

\* best_id, best_score of a slot the matcher ran on
MatchSlot(vb) ==
    LET scores == Ranked(vb)
    IN  IF scores = <<>> THEN [best |-> None, score |-> 0]
        ELSE IF Len(scores) > 1 /\ ~Confident(vb[scores[1]], vb[scores[2]])
        THEN [best |-> None, score |-> vb[scores[1]]]
        ELSE [best |-> scores[1], score |-> vb[scores[1]]]

\* ---- inputs ----
\* ROI lists: slot k is its portrait of the draft row, or the same portrait
\* scaled to no width
RoiLists ==
    UNION {{l \in [1..n -> UNION {{SlotRoi(k), NarrowRoi(k)} : k \in 1..MaxSlots}] :
               \A k \in 1..n : l[k] \in {SlotRoi(k), NarrowRoi(k)}} : n \in 0..MaxSlots}

\* what the first loop can measure on a slot: saturation means around the
\* absolute threshold and 15% apart or 0 (a portrait without colour), value
\* means and red ratios on both sides of their thresholds, text scores on both
\* sides of theirs
MetricGrid ==
    [s_mean : {0, 68, 80, 81, 96}, v_mean : {150, 151}, red_ratio_ctx : {34, 35},
     banned_text : {69, 70}]
\* a bright slot, a dim slot with a ribbon, a slot with the BANNED text
BrightSlot == [s_mean |-> 96, v_mean |-> 151, red_ratio_ctx |-> 34, banned_text |-> 69]
FewMetrics ==
    {BrightSlot,
     [s_mean |-> 68, v_mean |-> 150, red_ratio_ctx |-> 35, banned_text |-> 69],
     [s_mean |-> 96, v_mean |-> 151, red_ratio_ctx |-> 34, banned_text |-> 70]}

\* what the matcher can meet on a slot: des = the ROI has descriptors, good =
\* per hero and variant the number of good matches
ScoreSamples == {6, 7, 8, 12, 13}
GoodCounts == [Heroes -> UNION {[1..n -> ScoreSamples] : n \in 1..2}]
MatchGrid ==
    {[des |-> d, good |-> g] :
        d \in BOOLEAN,
        g \in {f \in GoodCounts : \A h \in Heroes : Len(f[h]) = VariantCount(h)}}
FewMatches ==
    {[des |-> TRUE, good |-> [h \in Heroes |-> IF h = "A" THEN <<12, 8>> ELSE <<6>>]]}

\* `roi = base_bgr[y:y+h, x:x+w]` has no pixels
EmptyCrop(r) == r[3] = 0 \/ r[4] = 0

\* faulty variant: every result carries the first ROI
ResultRoi_First(rs, idx) == rs[1]

\* `"roi": [int(x), int(y), int(w), int(h)]` of the idx-th ROI
ResultRoi(rs, idx) == rs[idx]

\* ---- run_sift_on_rois, step by step ----
\* the call, up to the first loop: the frame and the catalog are loaded
RunSift ==
    /\ rs_pc \in {"idle", "done", "raised", "emitted"}
    /\ rois' \in RoiLists
    /\ rs_pc' = "metrics"
    /\ metrics' = <<>>
    /\ second_lowest' = -1
    /\ results' = <<>>
    /\ slot_match' = NoMatch

\* one iteration of the first loop: cv2.cvtColor in sat_val_means raises on a
\* crop without pixels, and nothing in run_sift_on_rois catches it
FirstPass(samples) ==
    /\ rs_pc = "metrics"
    /\ Len(metrics) < Len(rois)
    /\ IF EmptyCrop(rois[Len(metrics) + 1])
       THEN /\ rs_pc' = "raised"
            /\ UNCHANGED metrics
       ELSE /\ \E m \in samples : metrics' = Append(metrics, m)
            /\ UNCHANGED rs_pc
    /\ UNCHANGED <<rois, second_lowest, results, slot_match>>

\* between the loops: sat_values, sat_sorted, second_lowest (sat_sorted[0]
\* raises IndexError on an empty ROI list)
Baseline ==
    /\ rs_pc = "metrics"
    /\ Len(metrics) = Len(rois)
    /\ IF metrics = <<>>
       THEN /\ rs_pc' = "raised"
            /\ UNCHANGED second_lowest
       ELSE /\ rs_pc' = "decide"
            /\ second_lowest' = SecondLowest(SatValues(metrics))
    /\ UNCHANGED <<rois, metrics, results, slot_match>>

\* one iteration of the second loop; keep: slot_match records the good
\* matches the matcher met
SecondPass(samples, keep) ==
    /\ rs_pc = "decide"
    /\ Len(results) < Len(rois)
    /\ LET idx == Len(results) + 1
           banned == Banned(metrics[idx], second_lowest)
       IN  IF MatcherRuns(banned)
           THEN \E inp \in samples :
                    LET vb == [h \in Heroes |-> VBest(inp.des, inp.good[h])]
                        r == MatchSlot(vb)
                    IN  /\ slot_match' = [ran |-> TRUE, des |-> inp.des,
                                           good |-> IF keep THEN inp.good ELSE NoMatch.good,
                                           v_best |-> vb, ranking |-> Ranked(vb)]
                        /\ results' = Append(results, [slot |-> idx, best |-> r.best,
                                                       score |-> r.score,
                                                       roi |-> ResultRoi(rois, idx),
                                                       banned |-> banned])
           ELSE /\ slot_match' = NoMatch
                /\ results' = Append(results, [slot |-> idx, best |-> None, score |-> 0,
                                               roi |-> ResultRoi(rois, idx),
                                               banned |-> banned])
    /\ UNCHANGED <<rois, rs_pc, metrics, second_lowest>>

\* annotate and return
Finish ==
    /\ rs_pc = "decide"
    /\ Len(results) = Len(rois)
    /\ rs_pc' = "done"
    /\ UNCHANGED <<rois, metrics, second_lowest, results, slot_match>>

\* the classifier on every measurable frame, the matcher on one catalog outcome
NextClassify ==
    /\ RunSift \/ FirstPass(MetricGrid) \/ Baseline \/ SecondPass(FewMatches, FALSE) \/ Finish
    /\ UNCHANGED <<monitorVars, draftVars, captureVars, calibVars, streamVars, extVars>>
SpecClassify == Init /\ [][NextClassify]_vars

\* the matcher on every catalog outcome, the classifier on three kinds of slot
NextMatch ==
    /\ RunSift \/ FirstPass(FewMetrics) \/ Baseline \/ SecondPass(MatchGrid, FALSE) \/ Finish
    /\ UNCHANGED <<monitorVars, draftVars, captureVars, calibVars, streamVars, extVars>>
SpecMatch == Init /\ [][NextMatch]_vars

\* the matcher on every catalog outcome of bright slots, with the good matches
\* of every variant on record
NextVariants ==
    /\ RunSift \/ FirstPass({BrightSlot}) \/ Baseline \/ SecondPass(MatchGrid, TRUE) \/ Finish
    /\ UNCHANGED <<monitorVars, draftVars, captureVars, calibVars, streamVars, extVars>>
SpecVariants == Init /\ [][NextVariants]_vars

(***************************************************************************)
(* scale_rois of window_monitor.py and of detect_once.py.                  *)
(***************************************************************************)
\* int(round(n / d)) for n >= 0, d > 0: Python 3 rounds to the nearest
\* integer and a tie to the even neighbour
RoundHalfEven(n, d) ==
    LET q == n \div d
        r == n % d
    IN  IF 2 * r < d THEN q
        ELSE IF 2 * r > d THEN q + 1
        ELSE IF q % 2 = 0 THEN q ELSE q + 1

\* faulty variant: the product is truncated
ScaleCoord_Truncate(v, cur, base) == (v * cur) \div base

\* `int(round(x * sx))` with `sx = cur_w / float(base_w)`
ScaleCoord(v, cur, base) == RoundHalfEven(v * cur, base)

\* window_monitor.scale_rois(rois, base_w, base_h, cur_w, cur_h)
scale_rois(rs, base_w, base_h, cur_w, cur_h) ==
    [k \in 1..Len(rs) |->
        <<ScaleCoord(rs[k][1], cur_w, base_w), ScaleCoord(rs[k][2], cur_h, base_h),
          ScaleCoord(rs[k][3], cur_w, base_w), ScaleCoord(rs[k][4], cur_h, base_h)>>]

\* detect_once.scale_rois(rois, base_wh, cur_wh): the loop appends one scaled
\* rectangle per ROI
RECURSIVE detect_once_scale_rois(_, _, _)
detect_once_scale_rois(rs, base_wh, cur_wh) ==
    IF rs = <<>> THEN <<>>
    ELSE LET bw == base_wh[1]
             bh == base_wh[2]
             cw == cur_wh[1]
             ch == cur_wh[2]
             r == rs[Len(rs)]
         IN  Append(detect_once_scale_rois(SubSeq(rs, 1, Len(rs) - 1), base_wh, cur_wh),
                    <<RoundHalfEven(r[1] * cw, bw), RoundHalfEven(r[2] * ch, bh),
                      RoundHalfEven(r[3] * cw, bw), RoundHalfEven(r[4] * ch, bh)>>)

\* ---- inputs ----
\* every frame with sides up to MaxSide, and every rectangle with positive
\* width and height inside a frame
Sides == 1..MaxSide
SmallFrames == Sides \X Sides
RectsIn(size) ==
    {r \in (0..(size[1] - 1)) \X (0..(size[2] - 1)) \X (1..size[1]) \X (1..size[2]) :
        r[1] + r[3] <= size[1] /\ r[2] + r[4] <= size[2]}
\* the calibration of 1000 x 800: ROI lists of every length over three
\* rectangles, and windows of twice, a quarter and three quarters the size
CalibRects == {<<100, 100, 50, 50>>, <<500, 100, 500, 50>>, <<10, 10, 1, 40>>}
CalibLists == UNION {[1..n -> CalibRects] : n \in 0..MaxSlots}
WindowSizes == {<<2000, 1600>>, <<250, 200>>, <<751, 600>>}
\* one call of each scale_rois on the arguments rs, b, c
Scales(rs, b, c) ==
    scale_call' =
        [pc |-> "scaled", rois |-> rs, base |-> b, cur |-> c,
         out |-> scale_rois(rs, b[1], b[2], c[1], c[2]),
         once |-> detect_once_scale_rois(rs, b, c),
         back |-> <<>>]

\* a call on one rectangle of a small frame, or on a list of the calibration
ScaleCall ==
    /\ scale_call.pc = "idle"
    /\ \/ \E b \in SmallFrames, c \in SmallFrames : \E r \in RectsIn(b) : Scales(<<r>>, b, c)
       \/ \E l \in CalibLists, c \in WindowSizes : Scales(l, CalibFrame, c)

\* the scaled list is scaled back from the current size to the base size
ScaleBack ==
    /\ scale_call.pc = "scaled"
    /\ scale_call' =
           [scale_call EXCEPT
               !.pc = "back",
               !.back = scale_rois(scale_call.out, scale_call.cur[1], scale_call.cur[2],
                                   scale_call.base[1], scale_call.base[2])]

NextScale ==
    /\ ScaleCall \/ ScaleBack
    /\ UNCHANGED <<cfg, shot, base_w_h, rois_base, gate_obs, tool, loaded>>
    /\ UNCHANGED <<monitorVars, draftVars, captureVars, siftVars, streamVars, extVars>>
SpecScale == Init /\ [][NextScale]_vars

(***************************************************************************)
(* window_monitor.main before its loop, and what the loop does with the    *)
(* calibration it loaded.                                                  *)
(***************************************************************************)
\* faulty variant: a readable screenshot wins over base_size
BaseSize_ShotFirst(c, sh) ==
    IF c.screen_path # NoKey /\ sh # Unreadable THEN sh
    ELSE IF c.base_size # <<>> /\ Len(c.base_size) = 2
    THEN <<c.base_size[1], c.base_size[2]>>
    ELSE NoBase

\* base_w, base_h: the shape of the image at screen_path if the key is there
\* and the image can be read, then overwritten by base_size if that key holds
\* two entries
BaseSize(c, sh) ==
    LET ref == IF c.screen_path # NoKey /\ sh # Unreadable THEN sh ELSE NoBase
    IN  IF c.base_size # <<>> /\ Len(c.base_size) = 2
        THEN <<c.base_size[1], c.base_size[2]>>
        ELSE ref

\* `if base_w and base_h:`
HasBase(b) == b[1] # 0 /\ b[2] # 0

\* the anchor gate: gate_score with the anchor scaled by the base size, or
\* cv2.matchTemplate with the anchor as it is
GateMode(b) == IF HasBase(b) THEN "scaled" ELSE "native"

\* the ENTER block: `rois = scale_rois(...)` or `rois = list(rois_base)`
EnterRois(b, rs, dims) ==
    IF HasBase(b) THEN scale_rois(rs, b[1], b[2], dims[1], dims[2]) ELSE rs

\* ---- inputs ----
\* the calibration files a run can meet: none, one that does not parse, and
\* files with or without screen_path and with no, a well-formed or a
\* one-entry base_size
CfgFiles ==
    {MissingCfg, InvalidCfg} \cup
    {CfgFile(sp, DefaultRois, bs) :
        sp \in {NoKey, ScreenPath}, bs \in {<<>>, <<1280, 720>>, <<1280>>}}
Shots == {Unreadable, CalibFrame}

\* the process has parsed its arguments
InitStartup ==
    /\ prog = WM
    /\ now = 0
    /\ hit = 0
    /\ miss = 0
    /\ triggered = FALSE
    /\ cooldown_until = 0
    /\ last_window_status = "none"
    /\ score = -1
    /\ loop = "starting"
    /\ alive = TRUE
    /\ passes = <<>>
    /\ live_frame = 0
    /\ cycle = "init"
    /\ emitted = <<>>
    /\ scores_seen = <<>>
    /\ SIFT = FALSE
    /\ CACHE = <<>>
    /\ dpc = [c \in Calls |-> "idle"]
    /\ load_next = [c \in Calls |-> 0]
    /\ iter_len = [c \in Calls |-> 0]
    /\ iter_pos = [c \in Calls |-> 0]
    /\ scored = [c \in Calls |-> {}]
    /\ win = NoWindow
    /\ cap = NoCapture
    /\ held = {}
    /\ rois = <<>>
    /\ rs_pc = "idle"
    /\ metrics = <<>>
    /\ second_lowest = -1
    /\ results = <<>>
    /\ slot_match = NoMatch
    /\ scale_call = NoScale
    /\ cfg \in CfgFiles
    /\ shot \in Shots
    /\ base_w_h = NoBase
    /\ rois_base = <<>>
    /\ gate_obs = NoGate
    /\ tool = NoTool
    /\ loaded = NotLoaded
    /\ stdout = <<>>
    /\ wr = [t \in Writers |-> [pos |-> 0, mid |-> FALSE]]
    /\ InitExt

\* main from `cfg_path = Path(args.config)` to `_emit({"status": "started"})`.
\*   anchor: the anchor image is missing, cannot be read, or is loaded
Startup ==
    /\ prog = WM
    /\ loop = "starting"
    /\ alive
    /\ cycle' = "startup"
    /\ \E anchor \in {"missing", "unreadable", "ok"} :
         /\ ~(cfg.exists /\ cfg.valid) => anchor = "ok"
         /\ IF ~cfg.exists
            THEN \* _emit error, sys.exit(1)
                 /\ loop' = "exited"
                 /\ emitted' = <<"error">>
                 /\ UNCHANGED <<base_w_h, rois_base>>
            ELSE IF ~cfg.valid
            THEN \* json.loads or cfg["rois"] raises; nothing catches it
                 /\ loop' = "crashed"
                 /\ emitted' = <<>>
                 /\ UNCHANGED <<base_w_h, rois_base>>
            ELSE IF anchor # "ok"
            THEN /\ loop' = "exited"
                 /\ emitted' = <<"error">>
                 /\ UNCHANGED <<base_w_h, rois_base>>
            ELSE /\ loop' = "running"
                 /\ emitted' = <<"started">>
                 /\ base_w_h' = BaseSize(cfg, shot)
                 /\ rois_base' = cfg.rois
    /\ UNCHANGED <<prog, now, gateVars, last_window_status, score, alive, passes,
                   live_frame>>
    /\ UNCHANGED <<cfg, shot, gate_obs, tool, loaded>>

\* a poll cycle, with the anchor gate and the ENTER block as they use the
\* calibration.  dims: (win_w, win_h) of the cycle
WMConfiguredCycle ==
    \E lookup \in {"raise", "none", "found", "minimized"}, capres \in {"ok", "raise"},
       dims \in WindowSizes :
        /\ WMCycle(lookup, capres)
        /\ LET entered == Len(passes') > Len(passes)
               gated == cycle' \in {"gate", "gate_error"}
           IN  /\ ~entered => dims = <<2000, 1600>>
               /\ gate_obs' =
                      [mode |-> IF gated THEN GateMode(base_w_h) ELSE "none",
                       dims |-> IF entered THEN dims ELSE <<0, 0>>,
                       rois |-> IF entered THEN EnterRois(base_w_h, rois_base, dims)
                                ELSE <<>>]
        /\ UNCHANGED <<cfg, shot, base_w_h, rois_base, tool, loaded>>

\* window_monitor from its start: the startup, the poll loop, the stop signal
\* and the exit
NextStartup ==
    /\ \/ Startup
       \/ WMConfiguredCycle
       \/ Stop /\ UNCHANGED <<cfg, shot, base_w_h, rois_base, gate_obs, tool, loaded>>
       \/ Exit /\ UNCHANGED <<cfg, shot, base_w_h, rois_base, gate_obs, tool, loaded>>
    /\ UNCHANGED <<scores_seen, scale_call, draftVars, captureVars, siftVars, streamVars, extVars>>
SpecStartup == InitStartup /\ [][NextStartup]_vars

(***************************************************************************)
(* The calibration tools: calibrate_rois.py and edit_roi.py write          *)
(* config/roi_config.json, sift_core.load_roi_config reads it.             *)
(***************************************************************************)
\* cv2.selectROI returns (0, 0, 0, 0) for a cancelled selection
Cancel == <<0, 0, 0, 0>>
\* what the user can select: the first portrait, another box, nothing
Picks == {SlotRoi(1), <<200, 300, 40, 40>>, Cancel}

\* the loop of calibrate_rois: `if r == (0,0,0,0): break`, else
\* `rois.append([int(r[0]), int(r[1]), int(r[2]), int(r[3])])`
RECURSIVE Selected(_)
Selected(picks) ==
    IF picks = <<>> \/ Head(picks) = Cancel THEN <<>>
    ELSE <<PyList(Head(picks))>> \o Selected(Tail(picks))

\* json.dump of a list of lists or tuples of ints: an array of arrays
JsonDump(pl) == [k \in 1..Len(pl.items) |-> pl.items[k].items]
\* json.load of an array of arrays: a list of lists
JsonLoad(arr) == PyList([k \in 1..Len(arr) |-> PyList(arr[k])])
\* `[tuple(r) for r in ...]`
Tuples(pl) == PyList([k \in 1..Len(pl.items) |-> PyTuple(pl.items[k].items)])

\* calibrate_rois.main with --slots MaxSlots: the file is written whatever
\* was selected, with the keys screen_path and rois only
Calibrate ==
    /\ shot # Unreadable
    /\ \E picks \in [1..MaxSlots -> Picks] :
         /\ \A k \in 2..MaxSlots : picks[k - 1] = Cancel => picks[k] = Cancel
         /\ LET rs == PyList(Selected(picks))
            IN  /\ cfg' = CfgFile(ScreenPath, JsonDump(rs), <<>>)
                /\ tool' = [op |-> "calibrate", slot |-> 0, sel |-> JsonDump(rs),
                            out |-> "saved"]
    /\ UNCHANGED <<scale_call, shot, base_w_h, rois_base, gate_obs, loaded>>

\* edit_roi.main --slot slot, with the selection pick
EditRoi ==
    /\ \E slot \in 0..(MaxSlots + 1), pick \in Picks :
         LET rs == Tuples(JsonLoad(cfg.rois))
             raises == \/ ~cfg.exists
                       \/ ~cfg.valid
                       \/ rs.items = <<>>
                       \/ slot < 1
                       \/ slot > Len(rs.items)
                       \/ cfg.screen_path = NoKey
                       \/ shot = Unreadable
             new == PyList([rs.items EXCEPT ![slot] = PyList(pick)])
         IN  /\ raises => pick = Cancel
             /\ IF raises
                THEN /\ tool' = [op |-> "edit", slot |-> slot, sel |-> <<>>, out |-> "raise"]
                     /\ UNCHANGED cfg
                ELSE IF pick = Cancel
                THEN /\ tool' = [op |-> "edit", slot |-> slot, sel |-> <<>>,
                                 out |-> "cancelled"]
                     /\ UNCHANGED cfg
                ELSE /\ tool' = [op |-> "edit", slot |-> slot, sel |-> <<pick>>,
                                 out |-> "saved"]
                     /\ cfg' = [cfg EXCEPT !.rois = JsonDump(new)]
    /\ UNCHANGED <<scale_call, shot, base_w_h, rois_base, gate_obs, loaded>>

\* sift_core.load_roi_config
LoadRoiConfig ==
    /\ LET rs == Tuples(JsonLoad(cfg.rois))
       IN  loaded' = IF ~cfg.exists \/ ~cfg.valid \/ rs.items = <<>> THEN Raised ELSE rs
    /\ tool' = [op |-> "load", slot |-> 0, sel |-> <<>>, out |-> "read"]
    /\ UNCHANGED <<scale_call, cfg, shot, base_w_h, rois_base, gate_obs>>

NextCalib ==
    /\ Calibrate \/ EditRoi \/ LoadRoiConfig
    /\ UNCHANGED <<monitorVars, draftVars, captureVars, siftVars, streamVars, extVars>>
SpecCalib == Init /\ [][NextCalib]_vars

(***************************************************************************)
(* sys.stdout of window_monitor: _emit of the poll loop, and in the        *)
(* detection thread the print() of run_sift_on_rois followed by _emit of   *)
(* _detect.  print(text, flush=True) is file.write(text), file.write("\n") *)
(* and file.flush(); another thread can run between the two writes.        *)
(***************************************************************************)
\* what each thread prints, in order: "json" = a record through _emit,
\* "diag" = the `[ROI n] ...` line of sift_core
Prints(t) ==
    IF t = "main" THEN [k \in 1..MaxEmits |-> "json"] ELSE <<"diag", "json">>

\* print(): file.write(text)
PrintText(t) ==
    /\ ~wr[t].mid
    /\ wr[t].pos < Len(Prints(t))
    /\ stdout' = Append(stdout, [by |-> t, kind |-> Prints(t)[wr[t].pos + 1]])
    /\ wr' = [wr EXCEPT ![t].mid = TRUE]

\* print(): file.write(end), with end = "\n"
PrintEnd(t) ==
    /\ wr[t].mid
    /\ stdout' = Append(stdout, [by |-> t, kind |-> "nl"])
    /\ wr' = [wr EXCEPT ![t].mid = FALSE, ![t].pos = wr[t].pos + 1]

NextStream ==
    /\ \E t \in Writers : PrintText(t) \/ PrintEnd(t)
    /\ UNCHANGED <<monitorVars, draftVars, captureVars, siftVars, calibVars, extVars>>
SpecStream == Init /\ [][NextStream]_vars

(***************************************************************************)
(* The anchor gate: gate_score of window_monitor.py (anchor_score of       *)
(* unit_scanner.py is the same code) and the branch of window_monitor.main *)
(* that is taken without a base size.  Sizes are (width, height).          *)
(***************************************************************************)
\* `new_aw = max(1, int(round(aw * sx)))`, `new_ah = max(1, int(round(ah * sy)))`
\* with sx = win_w / float(base_w), sy = win_h / float(base_h)
ScaledAnchor(anchor, base, frame) ==
    <<Max(1, RoundHalfEven(anchor[1] * frame[1], base[1])),
      Max(1, RoundHalfEven(anchor[2] * frame[2], base[2]))>>

\* faulty variant: only the height is compared
ExceedsFrame_Height(t, frame) == t[2] > frame[2]

\* `scaled_anchor.shape[0] > win_gray.shape[0] or
\*  scaled_anchor.shape[1] > win_gray.shape[1]`
ExceedsFrame(t, frame) == t[2] > frame[2] \/ t[1] > frame[1]

\* `if aw <= win_w and ah <= win_h:` in main
FitsWindow(anchor, frame) == anchor[1] <= frame[1] /\ anchor[2] <= frame[2]

\* gate_score: peak is what cv2.matchTemplate(...).max() gives when it is called
gate_score(frame, anchor, base, peak) ==
    LET scaled_anchor == ScaledAnchor(anchor, base, frame)
    IN  IF ExceedsFrame(scaled_anchor, frame)
        THEN [tmpl |-> scaled_anchor, matched |-> FALSE, score |-> 0]
        ELSE [tmpl |-> scaled_anchor, matched |-> TRUE, score |-> peak]

\* the else branch of `if base_w and base_h:` in main
NativeGate(frame, anchor, peak) ==
    IF FitsWindow(anchor, frame)
    THEN [tmpl |-> anchor, matched |-> TRUE, score |-> peak]
    ELSE [tmpl |-> anchor, matched |-> FALSE, score |-> 0]

\* `score = gate_score(window_bgr, anchor_gray, base_w, base_h)`
GateScoreCall ==
    /\ anchor_call.mode = "none"
    /\ \E frame \in SmallFrames, anchor \in SmallFrames, base \in SmallFrames,
       peak \in Scores(WM) :
        LET g == gate_score(frame, anchor, base, peak)
        IN  /\ ~g.matched => peak = Enter(WM)
            /\ anchor_call' = [mode |-> "scaled", frame |-> frame, anchor |-> anchor,
                               base |-> base, tmpl |-> g.tmpl, matched |-> g.matched,
                               score |-> g.score]

\* the gate of a run that has no base size
NativeGateCall ==
    /\ anchor_call.mode = "none"
    /\ \E frame \in SmallFrames, anchor \in SmallFrames, peak \in Scores(WM) :
        LET g == NativeGate(frame, anchor, peak)
        IN  /\ ~g.matched => peak = Enter(WM)
            /\ anchor_call' = [mode |-> "native", frame |-> frame, anchor |-> anchor,
                               base |-> NoBase, tmpl |-> g.tmpl, matched |-> g.matched,
                               score |-> g.score]

NextAnchor ==
    /\ GateScoreCall \/ NativeGateCall
    /\ UNCHANGED <<monitorVars, draftVars, captureVars, siftVars, calibVars, streamVars,
                   detectOnceVars, scannerVars, eventVars, statusVars, importVars>>
SpecAnchor == Init /\ [][NextAnchor]_vars

(***************************************************************************)
(* backend/routes_detect.py: POST /detect-once.  Request c uploads         *)
(* screenshot c; the handlers run in the threads of the Flask process and  *)
(* every matcher subprocess writes the same file out/matches.json.         *)
(***************************************************************************)
\* `if OUT_JSON.exists(): ... json.loads(OUT_JSON.read_text(...))`
OutJsonReadable(file) == file # 0

\* detect_once.main: `OUT_JSON.write_text(json.dumps({"results": results}))` is
\* its last statement; a matcher that exits earlier leaves the file as it was
MatcherOutput(file, c, run) == IF run = "ok" THEN c ELSE file

\* the handler up to subprocess.run: the upload is saved in a fresh temporary
\* directory and the matcher is started
DetectOnceStart(c) ==
    /\ rq[c].pc = "idle"
    /\ \E screen \in BOOLEAN :
         rq' = [rq EXCEPT ![c] = IF screen THEN [@ EXCEPT !.pc = "running"]
                                 ELSE [@ EXCEPT !.pc = "done", !.code = 400]]
    /\ UNCHANGED matches_json

\* the matcher subprocess of request c, to its exit
\*   run: "ok", "unreadable" (SystemExit: cv2.imread gave None), "raise" (the
\*        configuration or run_sift_on_rois raised)
DetectOnceMatcher(c) ==
    /\ rq[c].pc = "running"
    /\ \E run \in {"ok", "unreadable", "raise"} :
         /\ matches_json' = MatcherOutput(matches_json, c, run)
         /\ rq' = [rq EXCEPT ![c] = [@ EXCEPT !.pc = "ran", !.run = run]]

\* the handler after subprocess.run has returned
DetectOnceRespond(c) ==
    /\ rq[c].pc = "ran"
    /\ rq' = [rq EXCEPT ![c] =
                 IF OutJsonReadable(matches_json)
                 THEN [@ EXCEPT !.pc = "done", !.code = 200, !.data = matches_json]
                 ELSE [@ EXCEPT !.pc = "done", !.code = 500]]
    /\ UNCHANGED matches_json

NextDetectOnce ==
    /\ \E c \in Calls : DetectOnceStart(c) \/ DetectOnceMatcher(c) \/ DetectOnceRespond(c)
    /\ UNCHANGED <<monitorVars, draftVars, captureVars, siftVars, calibVars, streamVars,
                   anchorVars, scannerVars, eventVars, statusVars, importVars>>
SpecDetectOnce == Init /\ [][NextDetectOnce]_vars

(***************************************************************************)
(* SiftMatching/unit_scanner.py: the poll loop of main.  The scanner has   *)
(* no detection thread and no `triggered` flag: when the dwell is met it   *)
(* writes 'capturing', saves the frame, writes 'captured' and starts the   *)
(* cooldown.  The whole loop is inside `try: ... except KeyboardInterrupt`.*)
(***************************************************************************)
\* the scanner has loaded its anchor and has emitted 'started'; it reads no
\* calibration file
InitScanner ==
    /\ prog = US
    /\ now = 0
    /\ hit = 0
    /\ miss = 0
    /\ triggered = FALSE
    /\ cooldown_until = 0
    /\ last_window_status = "none"
    /\ score = -1
    /\ loop = "running"
    /\ alive = TRUE
    /\ passes = <<>>
    /\ live_frame = 0
    /\ cycle = "init"
    /\ emitted = <<"started">>
    /\ scores_seen = <<>>
    /\ SIFT = FALSE
    /\ CACHE = <<>>
    /\ dpc = [c \in Calls |-> "idle"]
    /\ load_next = [c \in Calls |-> 0]
    /\ iter_len = [c \in Calls |-> 0]
    /\ iter_pos = [c \in Calls |-> 0]
    /\ scored = [c \in Calls |-> {}]
    /\ win = NoWindow
    /\ cap = NoCapture
    /\ held = {}
    /\ rois = <<>>
    /\ rs_pc = "idle"
    /\ metrics = <<>>
    /\ second_lowest = -1
    /\ results = <<>>
    /\ slot_match = NoMatch
    /\ scale_call = NoScale
    /\ cfg = MissingCfg
    /\ shot = Unreadable
    /\ base_w_h = NoBase
    /\ rois_base = <<>>
    /\ gate_obs = NoGate
    /\ tool = NoTool
    /\ loaded = NotLoaded
    /\ stdout = <<>>
    /\ wr = [t \in Writers |-> [pos |-> 0, mid |-> FALSE]]
    /\ InitExt

\* the scores a frame can produce: below and at the threshold
ScanScores == {US_ENTER_THRESH - 1, US_ENTER_THRESH}

\* faulty variant: a frame below the threshold leaves hit as it is
ScanHit_NoReset(h, sc) == IF sc >= US_ENTER_THRESH THEN h + 1 ELSE h

\* `if score >= ENTER_THRESH: hit += 1  else: hit = 0`
ScanHit(h, sc) == IF sc >= US_ENTER_THRESH THEN h + 1 ELSE 0

\* `if hit >= HIT_REQ:`
Dwell(h) == h >= US_HIT_REQ

\* `cooldown_until = time.time() + COOL_DOWN_SEC`
ScanCooldown(t) == t + US_COOL_DOWN_SEC

\* `score_emit_counter += 1; if score_emit_counter >= int(SCAN_FPS * 3): ... = 0`
CounterAfter(n) == IF n + 1 >= US_SCORE_EMIT_EVERY THEN 0 ELSE n + 1
ScoreLine(n) == IF n + 1 >= US_SCORE_EMIT_EVERY THEN <<"gate_score">> ELSE <<>>

CountUp(n, sc) == IF sc >= US_ENTER_THRESH THEN (IF n < US_HIT_REQ THEN n + 1 ELSE n) ELSE 0

\* One cycle of main's `while True`, up to the 'capturing' line when the dwell
\* is met (lookup, capres as in WMCycle).
ScanCycle(lookup, capres) ==
    /\ prog = US
    /\ loop = "running"
    /\ alive
    /\ IF InCooldown(now, cooldown_until)
       THEN /\ cycle' = "cooldown"
            /\ emitted' = <<>>
            /\ UNCHANGED <<hit, last_window_status, score, loop, scannerVars>>
       ELSE IF lookup = "raise"
            THEN \* find_e7_window and IsIconic are not inside any try block
                 /\ loop' = "crashed"
                 /\ cycle' = "lookup_error"
                 /\ emitted' = <<>>
                 /\ UNCHANGED <<hit, last_window_status, score, scannerVars>>
            ELSE IF lookup = "none"
            THEN /\ emitted' = StatusLine(last_window_status, "window_not_found")
                 /\ last_window_status' = "window_not_found"
                 /\ hit' = 0
                 /\ cycle' = "window_not_found"
                 /\ UNCHANGED <<score, loop, scannerVars>>
            ELSE LET new_status == IF lookup = "minimized" THEN "window_minimized"
                                                           ELSE "window_found"
                     pre == StatusLine(last_window_status, new_status)
                 IN  /\ last_window_status' = new_status
                     /\ IF capres = "raise"
                        THEN /\ emitted' = pre \o <<"capture_error">>
                             /\ cycle' = "capture_error"
                             /\ UNCHANGED <<hit, score, loop, scannerVars>>
                        ELSE \E gate \in {"ok", "raise"} :
                             IF gate = "raise"
                             THEN \* anchor_score is not guarded
                                  /\ loop' = "crashed"
                                  /\ cycle' = "gate_error"
                                  /\ emitted' = pre
                                  /\ UNCHANGED <<hit, score, scannerVars>>
                             ELSE \E g \in ScanScores :
                                  LET h2 == ScanHit(hit, g)
                                      told == pre \o ScoreLine(score_emit_counter)
                                  IN  /\ score' = g
                                      /\ score_emit_counter' = CounterAfter(score_emit_counter)
                                      /\ hit' = IF Dwell(h2) THEN 0 ELSE h2
                                      /\ emitted' = IF Dwell(h2) THEN told \o <<"capturing">>
                                                                 ELSE told
                                      /\ loop' = IF Dwell(h2) THEN "capturing" ELSE loop
                                      /\ cycle' = "gate"
                                      /\ scan_log' = [scan_log EXCEPT
                                                         !.qual = CountUp(@, g),
                                                         !.fresh = CountUp(@, g)]
    /\ UNCHANGED <<prog, now, miss, triggered, cooldown_until, alive, passes, live_frame>>

ScanPollCycle ==
    \E lookup \in {"raise", "none", "found", "minimized"}, capres \in {"ok", "raise"} :
        ScanCycle(lookup, capres)

\* the rest of the capture: cv2.imwrite to out/unit_frame.png, the 'captured'
\* line, the cooldown
ScanCapture ==
    /\ prog = US
    /\ loop = "capturing"
    /\ alive
    /\ emitted' = <<"captured">>
    /\ cooldown_until' = ScanCooldown(now)
    /\ loop' = "running"
    /\ cycle' = "capture"
    /\ scan_log' = [scan_log EXCEPT !.fresh = 0, !.last_capture = now,
                                    !.captures = @ + 1]
    /\ UNCHANGED <<prog, now, hit, miss, triggered, last_window_status, score, alive,
                   passes, live_frame, score_emit_counter>>

\* `except KeyboardInterrupt: _emit({"status": "stopped"})`: the interrupt is
\* raised in main wherever it is
ScanStop ==
    /\ prog = US
    /\ alive
    /\ loop \in {"running", "capturing"}
    /\ loop' = "stopped"
    /\ cycle' = "stop"
    /\ emitted' = <<"stopped">>
    /\ UNCHANGED <<prog, now, gateVars, last_window_status, score, alive, passes,
                   live_frame, scannerVars>>

NextScanner ==
    /\ \/ ScanPollCycle
       \/ ScanCapture
       \/ ScanStop
       \/ Tick /\ UNCHANGED scannerVars
    /\ UNCHANGED <<scores_seen, draftVars, captureVars, siftVars, calibVars, streamVars,
                   anchorVars, detectOnceVars, eventVars, statusVars, importVars>>
SpecScanner == InitScanner /\ [][NextScanner]_vars

(***************************************************************************)
(* window_monitor.main._detect: the 'detected' record made of the results  *)
(* of a pass.                                                              *)
(***************************************************************************)
\* `if r and not r.get("banned") and r.get("best")`
IsClean(r) == ~r.banned /\ r.best # None

\* `if r and r.get("banned") and r.get("best")`
IsBannedPick(r) == r.banned /\ r.best # None

Bests(rs) == [k \in 1..Len(rs) |-> rs[k].best]

\* faulty variant: the list is not cut
Clean_NoLimit(rs) == Bests(SelectSeq(rs, IsClean))

\* `clean = [r["best"] for r in results if ...][:4]`
Clean(rs) ==
    LET all == Bests(SelectSeq(rs, IsClean))
    IN  SubSeq(all, 1, IF Len(all) < CLEAN_MAX THEN Len(all) ELSE CLEAN_MAX)

\* `banned = next((r["best"] for r in results if ...), None)`
BannedPick(rs) ==
    LET picks == Bests(SelectSeq(rs, IsBannedPick))
    IN  IF picks = <<>> THEN None ELSE picks[1]

\* _detect after run_detection has returned: clean, banned, _emit
EmitDetected ==
    /\ rs_pc = "done"
    /\ rs_pc' = "emitted"
    /\ event' = [status |-> "detected", clean |-> Clean(results),
                 banned |-> BannedPick(results)]
    /\ UNCHANGED <<rois, metrics, second_lowest, results, slot_match>>

\* a pass of the detection thread, to its 'detected' line: three kinds of
\* slot, one catalog outcome
NextDetected ==
    /\ \/ (RunSift \/ FirstPass(FewMetrics) \/ Baseline \/ SecondPass(FewMatches, FALSE)
          \/ Finish) /\ UNCHANGED event
       \/ EmitDetected
    /\ UNCHANGED <<monitorVars, draftVars, captureVars, calibVars, streamVars,
                   anchorVars, detectOnceVars, scannerVars, statusVars, importVars>>
SpecDetected == Init /\ [][NextDetected]_vars

\* ---- _detect on the results of passes over up to MaxResults slots ----
\* what the second loop appends for a slot: banned without an entity
\* (kind = "banned"), or not banned and resolved to an entity or unresolved
SlotKinds == Heroes \cup {None, "banned"}
SlotResult(k, kind) ==
    IF kind = "banned"
    THEN [slot |-> k, best |-> None, score |-> 0, roi |-> SlotRoi(k), banned |-> TRUE]
    ELSE [slot |-> k, best |-> kind, score |-> IF kind = None THEN 0 ELSE 12,
          roi |-> SlotRoi(k), banned |-> FALSE]

\* run_detection returns the results of a pass
DetectionReturns ==
    /\ rs_pc = "idle"
    /\ \E n \in 0..MaxResults : \E kinds \in [1..n -> SlotKinds] :
         /\ results' = [k \in 1..n |-> SlotResult(k, kinds[k])]
         /\ rois' = [k \in 1..n |-> SlotRoi(k)]
    /\ rs_pc' = "done"
    /\ UNCHANGED <<metrics, second_lowest, slot_match, event>>

NextEvent ==
    /\ DetectionReturns \/ EmitDetected
    /\ UNCHANGED <<monitorVars, draftVars, captureVars, calibVars, streamVars,
                   anchorVars, detectOnceVars, scannerVars, statusVars, importVars>>
SpecEvent == Init /\ [][NextEvent]_vars

(***************************************************************************)
(* The window-status lines of a run of window_monitor or of unit_scanner,  *)
(* with the line written last on record.                                   *)
(***************************************************************************)
WindowStatus == {"window_found", "window_minimized", "window_not_found"}
StatusLines(lines) == SelectSeq(lines, LAMBDA l : l \in WindowStatus)

RecordStatus ==
    status_seen' =
        LET told == StatusLines(emitted')
        IN  IF told = <<>> THEN status_seen ELSE told[Len(told)]

InitStatus == InitMonitor \/ InitScanner
NextStatus ==
    /\ \/ WMPollCycle /\ UNCHANGED scannerVars
       \/ ScanPollCycle
       \/ ScanCapture
       \/ Tick /\ UNCHANGED scannerVars
    /\ RecordStatus
    /\ UNCHANGED <<scores_seen, draftVars, captureVars, siftVars, calibVars, streamVars,
                   anchorVars, detectOnceVars, eventVars, importVars>>
SpecStatus == InitStatus /\ [][NextStatus]_vars

(***************************************************************************)
(* backend/routes_auto_import.py: POST /auto_import/unit, served by the    *)
(* threads of the Flask process (app.run(..., threaded=True)).  The upsert *)
(* is a find_one followed by an update_one or an insert_one; the           *)
(* collection has no unique index on (uploaded_by, unit).                  *)
(***************************************************************************)
Users == {"u1", "u2"}

\* `image_stats.find_one({"uploaded_by": username, "unit": corrected})`: the
\* _id of the first matching document, 0 for None
FindOne(docs, user, unit) ==
    LET hits == {k \in 1..Len(docs) : docs[k].uploaded_by = user /\ docs[k].unit = unit}
    IN  IF hits = {} THEN 0 ELSE docs[CHOOSE k \in hits : \A j \in hits : k <= j].id

\* `event_type = "updated" if existing else "added"`
EventType(existing) == IF existing # 0 THEN "updated" ELSE "added"

\* update_one({"_id": existing["_id"]}, {"$set": stats}) by handler c
UpdateOne(docs, id, c) ==
    [k \in 1..Len(docs) |-> IF docs[k].id = id THEN [docs[k] EXCEPT !.by = c] ELSE docs[k]]

\* insert_one(stats) by handler c: a new document with a fresh _id
InsertOne(docs, user, unit, c) ==
    Append(docs, [id |-> Len(docs) + 1, uploaded_by |-> user, unit |-> unit, by |-> c])

\* the handler from the token check to find_one: the request of `user` with a
\* frame that reads as the hero `unit` (each handler thread serves one request)
ImportFind(c) ==
    /\ imp[c].pc = "idle"
    /\ \E user \in Users, unit \in Heroes :
         imp' = [imp EXCEPT ![c] = [pc |-> "found", user |-> user, unit |-> unit,
                                    existing |-> FindOne(image_stats, user, unit),
                                    event |-> "none"]]
    /\ UNCHANGED image_stats

\* the rest of the handler: update_one or insert_one, the log entry, the reply
ImportWrite(c) ==
    /\ imp[c].pc = "found"
    /\ image_stats' = IF imp[c].existing # 0
                       THEN UpdateOne(image_stats, imp[c].existing, c)
                       ELSE InsertOne(image_stats, imp[c].user, imp[c].unit, c)
    /\ imp' = [imp EXCEPT ![c] = [@ EXCEPT !.pc = "done",
                                            !.event = EventType(imp[c].existing)]]

NextImport ==
    /\ \E c \in Calls : ImportFind(c) \/ ImportWrite(c)
    /\ UNCHANGED <<monitorVars, draftVars, captureVars, siftVars, calibVars, streamVars,
                   anchorVars, detectOnceVars, scannerVars, eventVars, statusVars>>
SpecImport == Init /\ [][NextImport]_vars

\* the monitor process, with the clock
Next ==
    /\ PollCycle \/ Tick \/ DetectThread \/ Stop \/ Exit
    /\ UNCHANGED <<scores_seen, draftVars, captureVars, siftVars, calibVars, streamVars, extVars>>
Spec == Init /\ [][Next]_vars

(***************************************************************************)
(* Properties of the gate (SpecGate)                                       *)
(***************************************************************************)
ScoresOnly(seen) == SelectSeq(seen, LAMBDA x : x # LOST)
\* the entries after the last window loss
RECURSIVE SinceLoss(_)
SinceLoss(seen) ==
    IF seen = <<>> THEN <<>>
    ELSE IF seen[Len(seen)] = LOST THEN <<>>
    ELSE Append(SinceLoss(SubSeq(seen, 1, Len(seen) - 1)), seen[Len(seen)])
LastAllAtLeast(seq, n, th) ==
    /\ Len(seq) >= n
    /\ \A k \in (Len(seq) - n + 1)..Len(seq) : seq[k] >= th
LastAllBelow(seq, n, th) ==
    /\ Len(seq) >= n
    /\ \A k \in (Len(seq) - n + 1)..Len(seq) : seq[k] < th
Done == {"detected", "error"}
Emits(line) == \E k \in 1..Len(emitted) : emitted[k] = line
IdleFrame == ~triggered /\ cycle' = "gate"
TriggeredFrame == triggered /\ cycle' = "gate"

\* C1 as stated: on every frame evaluated while the gate is Idle, the gate
\* enters Triggered iff the last HIT_REQ scores evaluated in this Idle period
\* (this frame included) are all >= GATE_ENTER, and a score below GATE_ENTER
\* sets hit to 0.
C1_AsStated ==
    [][IdleFrame =>
          /\ triggered' <=> LastAllAtLeast(Append(ScoresOnly(scores_seen), score'),
                                           HitReq(prog), Enter(prog))
          /\ score' < Enter(prog) => hit' = 0]_vars

\* C1 amended: on every frame evaluated while the gate is Idle, the gate
\* enters Triggered iff at least HIT_REQ scores were evaluated since the gate
\* became Idle and since the window was last reported missing, and the last
\* HIT_REQ of them (this frame included) are all >= GATE_ENTER; a score below
\* GATE_ENTER sets hit to 0.
C1_EnterIffFreshHits ==
    [][IdleFrame =>
          /\ triggered' <=> LastAllAtLeast(Append(SinceLoss(scores_seen), score'),
                                           HitReq(prog), Enter(prog))
          /\ score' < Enter(prog) => hit' = 0]_vars

\* the gate has just entered Triggered on HIT_REQ qualifying frames
C1_Witness ==
    /\ cycle = "gate"
    /\ triggered
    /\ hit = HitReq(prog)
    /\ score >= Enter(prog)
    /\ scores_seen = <<>>
    /\ Len(passes) = 1

\* C2: while Triggered the score is compared against GATE_STAY (<= GATE_ENTER):
\* a score >= GATE_STAY sets miss to 0 and keeps the gate Triggered, a score
\* below it increments miss, and the gate leaves Triggered on a frame only when
\* the last MISS_REQ scores evaluated while Triggered are all below GATE_STAY.
C2_StayThreshold ==
    [][TriggeredFrame =>
          /\ Stay(prog) <= Enter(prog)
          /\ score' >= Stay(prog) => miss' = 0 /\ triggered'
          /\ score' < Stay(prog) => miss' = miss + 1
          /\ ~triggered' => LastAllBelow(Append(scores_seen, score'),
                                         MissReq(prog), Stay(prog))]_vars

\* a Triggered gate has evaluated a score in [GATE_STAY, GATE_ENTER) and stays
\* Triggered
C2_Witness ==
    /\ cycle = "gate"
    /\ triggered
    /\ scores_seen # <<>>
    /\ score >= Stay(prog)
    /\ score < Enter(prog)
    /\ miss = 0

\* what a poll cycle that looks for the window can end as
PollWork == {"lookup_error", "window_not_found", "capture_error", "gate_error",
             "snapshot_error", "gate"}

\* C3: a Triggered -> Idle transition made by the gate sets cooldown_until to
\* now + COOL_DOWN_SEC, and in a step that starts before cooldown_until there
\* is no window lookup, capture, gate evaluation or trigger, and hit, miss and
\* triggered keep their values.
C3_Cooldown ==
    [][/\ (TriggeredFrame /\ ~triggered') => cooldown_until' = now + CoolDown(prog)
       /\ now < cooldown_until =>
              /\ cycle' \notin PollWork
              /\ ~Emits("triggered")'
              /\ UNCHANGED <<hit, miss, triggered, passes, score, last_window_status>>]_vars

\* a poll cycle has been skipped inside the cooldown that followed MISS_REQ misses
C3_Witness ==
    /\ cycle = "cooldown"
    /\ now > 0
    /\ now < cooldown_until
    /\ ~triggered
    /\ miss = MissReq(prog)

\* C4: a detection pass is started in a step iff the gate goes from Idle to
\* Triggered in that step, one pass at a time, and (window_monitor) that step
\* is the one that emits 'triggered'.
C4_OnePassPerTrigger ==
    [][/\ Len(passes') = Len(passes) + 1 <=> (~triggered /\ triggered')
       /\ Len(passes') \in {Len(passes), Len(passes) + 1}
       /\ \A k \in 1..Len(passes) : passes'[k].frame = passes[k].frame
       /\ prog = WM => (Emits("triggered")' <=> (~triggered /\ triggered'))]_vars

\* the gate stayed Triggered over further qualifying frames and only the pass
\* of the trigger exists
C4_Witness ==
    /\ cycle = "gate"
    /\ triggered
    /\ hit > HitReq(prog)
    /\ Len(passes) = 1

(***************************************************************************)
(* Properties of the process (SpecProcess)                                 *)
(***************************************************************************)
Outstanding == {k \in 1..Len(passes) : passes[k].pc \notin Done}

\* C5 as stated: at most one detection pass is outstanding at any time.
C5_AsStated == Cardinality(Outstanding) <= 1

\* C6 as stated: every pass that has loaded its image has loaded the frame
\* snapshot of its own trigger.
C6_AsStated == \A k \in 1..Len(passes) : passes[k].img \in {0, passes[k].frame}

\* C7 as stated: once the process has ended after the stop signal, every pass
\* that was started has emitted its result.
C7_AsStated == (loop = "stopped" /\ ~alive) => Outstanding = {}

\* C7 amended: the stop signal ends the poll loop with 'stopped' as its last
\* line (no poll cycle follows); a pass that ends emits exactly its one result
\* line, at that moment, and only while the process is alive; a pass still
\* outstanding when the process exits stays without a result.
C7_StopAbandonsPasses ==
    [][/\ (loop = "running" /\ loop' = "stopped") =>
              (cycle' = "stop" /\ (prog = WM => emitted' = <<"stopped">>))
       /\ loop # "running" => (loop' = loop /\ cycle' \in {"thread", "exit"})
       /\ ~alive => passes' = passes
       /\ \A k \in 1..Len(passes) :
              /\ passes[k].pc \in Done => passes'[k] = passes[k]
              /\ (passes[k].pc \notin Done /\ passes'[k].pc \in Done) =>
                     /\ alive
                     /\ prog = WM =>
                            emitted' = <<IF passes'[k].pc = "detected" THEN "detected"
                                         ELSE "detection_error">>]_vars

\* the process has ended after the stop signal with a pass abandoned
C7_Witness ==
    /\ loop = "stopped"
    /\ ~alive
    /\ Outstanding # {}

\* C8 as stated: the poll loop ends only on the external stop signal.
C8_AsStated == loop \in {"running", "stopped"}

C11_AsStated == held = {}

Count(seq, x) == Cardinality({k \in 1..Len(seq) : seq[k] = x})
Captured == cap.src # "none"

\* C12: in a cycle that calls capture_window, the frame is the PrintWindow
\* bitmap iff the PrintWindow path returned it; when that path raised or
\* PrintWindow returned 0 the screen grab is tried, and its frame is the result
\* iff it did not raise.  The capture as a whole raises iff the grab raised,
\* and then the cycle emits exactly one 'capture_error', hit, miss, triggered
\* and cooldown_until keep their values, no pass is started and the loop is
\* still running.
C12_FallbackAndCaptureError ==
    [][Captured' =>
          /\ cap'.src = "printwindow" <=> cap'.path = "image"
          /\ cap'.path \in {"zero", "raise"} =>
                 /\ cap'.grab \in {"ok", "raise"}
                 /\ cap'.src = "mss" <=> cap'.grab = "ok"
                 /\ cap'.src = "raise" <=> cap'.grab = "raise"
          /\ cycle' = "capture_error" <=> cap'.src = "raise"
          /\ cap'.src = "raise" =>
                 /\ Count(emitted', "capture_error") = 1
                 /\ UNCHANGED <<gateVars, passes>>
                 /\ loop' = "running"
                 /\ alive']_vars

\* PrintWindow returned 0, the screen grab raised, and a gate that had counted
\* a hit got a 'capture_error' cycle
C12_Witness ==
    /\ cycle = "capture_error"
    /\ cap.path = "zero"
    /\ cap.src = "raise"
    /\ hit > 0
    /\ loop = "running"

\* C13: a cycle that does not find the window sets hit = 0, miss = 0 and
\* triggered = False, and reports the loss by 'window_not_found' (once, when
\* the status changes), never by 'capture_error'; a capture error never
\* reports 'window_not_found'; and every later trigger rests on HIT_REQ
\* qualifying frames evaluated after the loss.
C13_LossResetsGate ==
    [][/\ cycle' = "window_not_found" =>
              /\ hit' = 0
              /\ miss' = 0
              /\ ~triggered'
              /\ last_window_status' = "window_not_found"
              /\ emitted' = IF last_window_status # "window_not_found"
                            THEN <<"window_not_found">> ELSE <<>>
       /\ cycle' = "capture_error" => ~Emits("window_not_found")'
       /\ (IdleFrame /\ triggered') =>
              LastAllAtLeast(Append(SinceLoss(scores_seen), score'),
                             HitReq(prog), Enter(prog))]_vars

\* a Triggered gate that never left by misses has just lost the window
C13_Witness ==
    /\ cycle = "window_not_found"
    /\ emitted = <<"window_not_found">>
    /\ Len(passes) = 1
    /\ cooldown_until = 0
    /\ hit = 0
    /\ ~triggered

\* C14 as stated: a cycle whose lookup meets a minimized game window reports
\* 'window_minimized' (not 'window_not_found'), calls capture_window, and
\* hands it the dimensions of the restore rectangle.
C14_AsStated ==
    (win.present /\ win.iconic) =>
        /\ cycle # "window_not_found"
        /\ last_window_status = "window_minimized"
        /\ Captured
        /\ cap.dims = win.restore

(***************************************************************************)
(* Properties of a detection pass (SpecMatch, SpecClassify)                *)
(***************************************************************************)
\* the step decides a slot: it appends that slot's result
DecidesSlot == Len(results') = Len(results) + 1
KeepsResults == SubSeq(results', 1, Len(results)) = results

IsSecondLowest(b, values) ==
    IF Len(values) = 1 THEN b = values[1]
    ELSE /\ \E k \in 1..Len(values) : values[k] = b
         /\ Cardinality({k \in 1..Len(values) : values[k] < b}) <= 1
         /\ Cardinality({k \in 1..Len(values) : values[k] <= b}) >= 2

\* C16: the banned flag of every slot equals (banned_text >= BANNED_TM_THRESH)
\* or (red_ratio_ctx >= RED_RATIO_CTX_THR and s_mean <= SAT_MEAN_ABS_THR and
\* v_mean <= VAL_MEAN_ABS_THR and s_mean <= REL_SAT_RATIO_THR * second-lowest
\* saturation mean of the frame).
C16_BannedFormula ==
    [][DecidesSlot =>
          LET idx == Len(results')
              m == metrics[idx]
          IN  /\ IsSecondLowest(second_lowest, SatValues(metrics))
              /\ results'[idx].banned <=>
                     \/ m.banned_text >= BANNED_TM_THRESH
                     \/ /\ m.red_ratio_ctx >= RED_RATIO_CTX_THR
                        /\ m.s_mean <= SAT_MEAN_ABS_THR
                        /\ m.v_mean <= VAL_MEAN_ABS_THR
                        /\ 100 * m.s_mean <= REL_SAT_RATIO_THR * second_lowest]_vars

\* of two slots with a ribbon, both dim in absolute terms and without the
\* text, the one that is also dim relative to the frame is banned and the
\* other is not
C16_Witness ==
    /\ rs_pc = "done"
    /\ Len(results) = 2
    /\ \A k \in 1..2 : /\ metrics[k].banned_text < BANNED_TM_THRESH
                       /\ metrics[k].red_ratio_ctx >= RED_RATIO_CTX_THR
                       /\ metrics[k].s_mean <= SAT_MEAN_ABS_THR
                       /\ metrics[k].v_mean <= VAL_MEAN_ABS_THR
    /\ results[1].banned
    /\ ~results[2].banned

C18_MatcherSkipsBanned ==
    [][DecidesSlot =>
          LET r == results'[Len(results')]
          IN  /\ slot_match'.ran <=> ~r.banned
              /\ r.banned => (r.best = None /\ r.score = 0)
              /\ KeepsResults]_vars

\* slot 1 not banned with A = 12 and B = 6, slot 2 banned: the output of the
\* pass is [(slot 1, A, not banned), (slot 2, None, banned)]
C18_Witness ==
    /\ rs_pc = "done"
    /\ results = <<[slot |-> 1, best |-> "A", score |-> 12, roi |-> SlotRoi(1),
                    banned |-> FALSE],
                   [slot |-> 2, best |-> None, score |-> 0, roi |-> SlotRoi(2),
                    banned |-> TRUE]>>

\* C19: when the ROI of a slot has no descriptors (or fewer than two
\* keypoints) every catalog entry scores 0 against it and the slot's result is
\* best = None with score 0; the step does not raise, the results of the other
\* slots stay, and a pass that ends has a result for every slot.
C19_NoDescriptors ==
    [][/\ (DecidesSlot /\ slot_match'.ran /\ ~slot_match'.des) =>
              /\ \A h \in Heroes : slot_match'.v_best[h] = 0
              /\ results'[Len(results')].best = None
              /\ results'[Len(results')].score = 0
              /\ rs_pc' = "decide"
              /\ KeepsResults
       /\ rs_pc' = "done" => Len(results') = Len(rois')]_vars

\* slot 2 had no descriptors and is unresolved with score 0, next to slot 1
\* which was identified
C19_Witness ==
    /\ Len(results) = 2
    /\ results[1].best = "A"
    /\ slot_match.ran
    /\ ~slot_match.des
    /\ results[2].best = None
    /\ results[2].score = 0

\* C20 as stated: a pass whose ROI list has a slot of zero width or height
\* does not raise.
C20_AsStated == (\E k \in 1..Len(rois) : EmptyCrop(rois[k])) => rs_pc # "raised"

\* C24: a pass that completed returned one result per input ROI, in the order
\* of the ROIs: the i-th result (counted from 1) has slot = i and roi = the
\* i-th input ROI.
C24_OneResultPerRoi ==
    rs_pc = "done" =>
        /\ Len(results) = Len(rois)
        /\ \A i \in 1..Len(rois) : results[i].slot = i /\ results[i].roi = rois[i]

\* a completed pass over two different ROIs
C24_Witness ==
    /\ rs_pc = "done"
    /\ Len(rois) >= 2
    /\ results[1].roi = SlotRoi(1)
    /\ results[2].roi = SlotRoi(2)

\* C30: the score of a catalog entry on a slot is the largest of the scores
\* of its variants, and 0 if none is above 0, so it is at least the score of
\* every one of its variants; every entry is in the ranking at most once.
C30_BestVariant ==
    slot_match.ran =>
        /\ \A h \in Heroes :
               LET s == [k \in 1..Len(slot_match.good[h]) |->
                            IF slot_match.des THEN slot_match.good[h][k] ELSE 0]
               IN  /\ \A k \in 1..Len(s) : slot_match.v_best[h] >= s[k]
                   /\ slot_match.v_best[h] = 0
                      \/ \E k \in 1..Len(s) : slot_match.v_best[h] = s[k]
        /\ \A i, j \in 1..Len(slot_match.ranking) :
               i # j => slot_match.ranking[i] # slot_match.ranking[j]

\* the entry with two variants scored 12 and 8 and is ranked once, before the
\* entry with one variant
C30_Witness ==
    /\ slot_match.ran
    /\ slot_match.des
    /\ slot_match.good["A"] = <<12, 8>>
    /\ slot_match.good["B"] = <<8>>
    /\ slot_match.v_best["A"] = 12
    /\ slot_match.ranking = <<"A", "B">>

(***************************************************************************)
(* Properties of the ROI scaling (SpecScale)                               *)
(***************************************************************************)
Abs(n) == IF n < 0 THEN -n ELSE n
\* o is an integer nearest to v * cur / base
Nearest(o, v, cur, base) == 2 * Abs(o * base - v * cur) <= base
\* the axis a coordinate of (x, y, w, h) is measured along: 1 = width, 2 = height
Axis(i) == IF i \in {1, 3} THEN 1 ELSE 2
Scaled == scale_call.pc \in {"scaled", "back"}

\* C21: scale_rois returns one rectangle per ROI, in the order of the ROIs;
\* each coordinate is the integer nearest to x * cur_w / base_w (x, w) or to
\* y * cur_h / base_h (y, h), rounded on its own; detect_once.scale_rois
\* returns the same list as window_monitor.scale_rois; (100,100,50,50) at
\* base (1000,800) becomes (200,200,100,100) at (2000,1600).
C21_ScaleRois ==
    Scaled =>
        /\ Len(scale_call.out) = Len(scale_call.rois)
        /\ \A k \in 1..Len(scale_call.rois) : \A i \in 1..4 :
               Nearest(scale_call.out[k][i], scale_call.rois[k][i],
                       scale_call.cur[Axis(i)], scale_call.base[Axis(i)])
        /\ scale_call.once = scale_call.out
        /\ (/\ scale_call.rois = << <<100, 100, 50, 50>> >>
            /\ scale_call.base = <<1000, 800>>
            /\ scale_call.cur = <<2000, 1600>>)
           => scale_call.out = << <<200, 200, 100, 100>> >>

\* two ROIs scaled to three quarters: 37.55 and the ties 37.5 and 375.5 go up
C21_Witness ==
    /\ scale_call.pc = "scaled"
    /\ scale_call.rois = << <<100, 100, 50, 50>>, <<500, 100, 500, 50>> >>
    /\ scale_call.base = <<1000, 800>>
    /\ scale_call.cur = <<751, 600>>
    /\ scale_call.out = << <<75, 75, 38, 38>>, <<376, 75, 376, 38>> >>

\* C22 as stated: a ROI scaled from base to current and back from current to
\* base has each of x, y, w, h within 1 pixel of its original value, for every
\* pair of sizes.
C22_AsStated ==
    scale_call.pc = "back" =>
        \A k \in 1..Len(scale_call.rois) : \A i \in 1..4 :
            Abs(scale_call.back[k][i] - scale_call.rois[k][i]) <= 1

\* C22: a ROI scaled from base to current and back differs from the original,
\* per coordinate, by at most (base / current + 1) / 2 along the coordinate's
\* axis; that is within 1 pixel where the current side is at least the base
\* side.
C22_RoundTrip ==
    scale_call.pc = "back" =>
        /\ Len(scale_call.back) = Len(scale_call.rois)
        /\ \A k \in 1..Len(scale_call.rois) : \A i \in 1..4 :
               LET d == Abs(scale_call.back[k][i] - scale_call.rois[k][i])
                   b == scale_call.base[Axis(i)]
                   c == scale_call.cur[Axis(i)]
               IN  /\ 2 * c * d <= b + c
                   /\ c >= b => d <= 1

\* a ROI that came back more than one pixel off after a smaller window
C22_Witness ==
    /\ scale_call.pc = "back"
    /\ \E k \in 1..Len(scale_call.rois) : \E i \in 1..4 :
           Abs(scale_call.back[k][i] - scale_call.rois[k][i]) > 1

\* C23 as stated: a ROI with w > 0 and h > 0 inside the base frame has, after
\* scaling, w > 0 and h > 0 and lies inside the current frame.
C23_AsStated ==
    Scaled =>
        \A k \in 1..Len(scale_call.out) :
            LET r == scale_call.out[k]
            IN  /\ r[3] > 0
                /\ r[4] > 0
                /\ r[1] + r[3] <= scale_call.cur[1]
                /\ r[2] + r[4] <= scale_call.cur[2]

(***************************************************************************)
(* Properties of the startup and of the calibration (SpecStartup)          *)
(***************************************************************************)
\* C26 as stated: 'started' is written only by the step that ends the
\* startup, after the calibration was read; a startup that does not reach
\* the loop writes exactly one 'error'; nothing is polled before 'started';
\* 'stopped' is written only on the stop signal.
C26_AsStated ==
    [][/\ Emits("started")' =>
             loop = "starting" /\ loop' = "running" /\ cfg.exists /\ cfg.valid
       /\ (cycle' = "startup" /\ loop' # "running") => emitted' = <<"error">>
       /\ loop = "starting" => cycle' = "startup"
       /\ Emits("stopped")' => cycle' = "stop"]_vars

\* C28: the base size the run uses is base_size where the file holds a pair
\* under that key, whether or not screen_path names a readable image, else
\* the size of that image, else none; where there is one the anchor is matched
\* scaled and the thread gets scale_rois(rois_base, base, window), where there
\* is none the anchor is matched as it is and the thread gets rois_base.
C28_BaseResolution ==
    [][/\ (cycle' = "startup" /\ loop' = "running") =>
             base_w_h' = IF Len(cfg.base_size) = 2 THEN cfg.base_size
                         ELSE IF cfg.screen_path # NoKey /\ shot # Unreadable THEN shot
                         ELSE NoBase
       /\ gate_obs'.mode # "none" =>
             (gate_obs'.mode = "native" <=> base_w_h = NoBase)
       /\ gate_obs'.rois # <<>> =>
             gate_obs'.rois =
                 IF base_w_h = NoBase THEN rois_base
                 ELSE scale_rois(rois_base, base_w_h[1], base_w_h[2],
                                 gate_obs'.dims[1], gate_obs'.dims[2])]_vars

\* a run whose file has base_size and a readable screenshot of another size
\* has started a pass on a window of a quarter of the base size
C28_Witness ==
    /\ cfg.base_size = <<1280, 720>>
    /\ cfg.screen_path = ScreenPath
    /\ shot = CalibFrame
    /\ base_w_h = <<1280, 720>>
    /\ gate_obs.mode = "scaled"
    /\ gate_obs.dims = <<250, 200>>
    /\ gate_obs.rois # <<>>

\* C27 as stated: the file calibrate_rois wrote holds the selected ROIs in
\* order and load_roi_config returns that list; an edit that saved replaced
\* the rectangle of its slot and nothing else in the file; an edit whose
\* selection was cancelled left the file as it was.
C27_AsStated ==
    [][/\ tool'.op = "calibrate" => cfg'.rois = tool'.sel
       /\ tool'.op = "load" =>
             /\ loaded' # Raised
             /\ JsonDump(loaded') = cfg.rois
       /\ (tool'.op = "edit" /\ tool'.out = "saved") =>
             cfg' = [cfg EXCEPT !.rois = [cfg.rois EXCEPT ![tool'.slot] = tool'.sel[1]]]
       /\ (tool'.op = "edit" /\ tool'.out = "cancelled") => cfg' = cfg]_vars

(***************************************************************************)
(* Properties of the event stream (SpecStream)                             *)
(***************************************************************************)
\* C25 as stated: every line of the stream is exactly one complete JSON
\* record, also when both threads write: no line holds the text of two
\* records or anything else, and no line is empty.
C25_AsStated ==
    \A k \in 1..Len(stdout) :
        stdout[k].kind = "nl" =>
            /\ k >= 2
            /\ stdout[k - 1].kind = "json"
            /\ k = 2 \/ stdout[k - 2].kind = "nl"

(***************************************************************************)
(* Properties of the template cache (SpecDraft)                            *)
(***************************************************************************)
FullCache == [k \in 1..NumSlugs |-> k]

\* C10 as stated: a call that scores templates iterates the fully built
\* _CACHE, and _CACHE is not being built while a call iterates it.
C10_AsStated ==
    \A c \in Calls :
        dpc[c] = "scoring" =>
            /\ CACHE = FullCache
            /\ \A d \in Calls : dpc[d] # "loading"

(***************************************************************************)
(* Properties of the anchor gate (SpecAnchor)                              *)
(***************************************************************************)
\* the size t is the anchor scaled per axis by frame / base, each side the
\* nearest integer and at least 1
ScaledPerAxis(t, c) ==
    \A i \in 1..2 :
        /\ t[i] >= 1
        /\ \/ Nearest(t[i], c.anchor[i], c.frame[i], c.base[i])
           \/ t[i] = 1 /\ 2 * c.anchor[i] * c.frame[i] < c.base[i]

\* C31: gate_score compares the frame with the anchor scaled per axis by
\* (frame width / base width, frame height / base height) and never smaller
\* than 1x1; when that template is wider or taller than the frame the score
\* is 0 and no template match is attempted; the gate without a base size
\* likewise gives 0, without a match, when the anchor at its native size is
\* wider or taller than the window.
C31_GateScore ==
    LET c == anchor_call
    IN  /\ c.mode = "scaled" => ScaledPerAxis(c.tmpl, c)
        /\ c.mode = "native" => c.tmpl = c.anchor
        /\ (c.mode # "none" /\ (c.tmpl[1] > c.frame[1] \/ c.tmpl[2] > c.frame[2]))
               => c.score = 0 /\ ~c.matched

\* a 4x1 anchor of a 2x4 base on a 3x4 frame: the template is 6x1, too wide only
C31_Witness ==
    /\ anchor_call.mode = "scaled"
    /\ anchor_call.anchor = <<4, 1>>
    /\ anchor_call.base = <<2, 4>>
    /\ anchor_call.frame = <<3, 4>>
    /\ anchor_call.tmpl = <<6, 1>>
    /\ anchor_call.score = 0
    /\ ~anchor_call.matched

(***************************************************************************)
(* Properties of POST /detect-once (SpecDetectOnce)                        *)
(***************************************************************************)
\* C32 as stated: a request whose matcher produced a result is answered with
\* that result, and a request whose matcher produced none is answered with the
\* 500 error; no request is answered with the result of another request.
C32_AsStated ==
    \A c \in Calls :
        (rq[c].pc = "done" /\ rq[c].run # "none") =>
            IF rq[c].run = "ok" THEN rq[c].code = 200 /\ rq[c].data = c
            ELSE rq[c].code = 500 /\ rq[c].data = 0

(***************************************************************************)
(* Properties of the unit scanner (SpecScanner)                            *)
(***************************************************************************)
WritesCaptured == \E k \in 1..Len(emitted') : emitted'[k] = "captured"

\* 'captured' is written only after 'capturing', when the last HIT_REQ
\* evaluated frames all scored >= ENTER_THRESH; the capture leaves hit = 0 and
\* starts a cooldown of COOL_DOWN_SEC; since the capture before it, at least
\* the cooldown has passed and HIT_REQ frames in a row have qualified
CaptureRule ==
    WritesCaptured =>
        /\ loop = "capturing"
        /\ scan_log.qual >= US_HIT_REQ
        /\ hit' = 0
        /\ cooldown_until' = now + US_COOL_DOWN_SEC
        /\ scan_log.last_capture >= 0 =>
               /\ now >= scan_log.last_capture + US_COOL_DOWN_SEC
               /\ scan_log.fresh >= US_HIT_REQ

\* C33 as stated: in unit_scanner 'captured' is emitted only on a cycle where
\* the last HIT_REQ evaluated frames all scored >= ENTER_THRESH; every
\* 'capturing' line is directly followed by its 'captured' line; each capture
\* resets hit to 0 and starts a cooldown of COOL_DOWN_SEC, so two captures are
\* separated by at least the cooldown plus HIT_REQ fresh qualifying frames.
C33_AsStated ==
    [][/\ CaptureRule
       /\ (loop = "capturing" /\ emitted' # <<>>) => Head(emitted') = "captured"]_vars

\* C33: as above, except that the line after 'capturing' is 'captured' or,
\* when the scanner is interrupted between the two, 'stopped'.
C33_CaptureAfterDwell ==
    [][/\ CaptureRule
       /\ (loop = "capturing" /\ emitted' # <<>>) =>
              Head(emitted') \in {"captured", "stopped"}]_vars

\* the second capture of a run has been made
C33_Witness ==
    /\ prog = US
    /\ cycle = "capture"
    /\ emitted = <<"captured">>
    /\ scan_log.captures = 2
    /\ hit = 0
    /\ cooldown_until = now + US_COOL_DOWN_SEC

(***************************************************************************)
(* Further properties of the gate (SpecGate)                               *)
(***************************************************************************)
\* C34: in the poll loops of window_monitor and monitor_gate hit and miss are
\* never both positive; miss = 0 when the gate enters Triggered and hit = 0
\* when it leaves Triggered; a cycle that starts a detection pass ends
\* Triggered (the gate does not enter and leave in one cycle); when a cooldown
\* ends the gate is Idle with hit = 0.
C34_HitMissExclusive ==
    [][/\ hit = 0 \/ miss = 0
       /\ hit' = 0 \/ miss' = 0
       /\ (~triggered /\ triggered') => miss' = 0
       /\ (triggered /\ ~triggered') => hit' = 0
       /\ Len(passes') > Len(passes) => triggered'
       /\ (now < cooldown_until /\ ~(now' < cooldown_until')) =>
              ~triggered' /\ hit' = 0]_vars

\* the clock has just reached the end of the cooldown that followed MISS_REQ
\* misses
C34_Witness ==
    /\ cycle = "tick"
    /\ cooldown_until > 0
    /\ now = cooldown_until
    /\ ~triggered
    /\ hit = 0
    /\ miss = MissReq(prog)
    /\ Len(passes) = 1

(***************************************************************************)
(* Further properties of a detection pass (SpecClassify, SpecMatch)        *)
(***************************************************************************)
Decided == rs_pc \in {"decide", "done"}
RelDimmed == {k \in 1..Len(metrics) : RelDim(metrics[k], second_lowest)}
\* the slots classified suppressed without the BANNED text
RibbonBanned ==
    {k \in 1..Len(results) :
        results[k].banned /\ metrics[k].banned_text < BANNED_TM_THRESH}

C36_BannedNull ==
    /\ \A k \in 1..Len(results) : results[k].banned => results[k].best = None
    /\ event.status = "detected" => event.banned = None

\* the record of a pass with a resolved slot and a banned slot
C36_Witness ==
    /\ rs_pc = "emitted"
    /\ Len(results) = 2
    /\ ~results[1].banned
    /\ results[2].banned
    /\ event = [status |-> "detected", clean |-> <<"A">>, banned |-> None]

\* the slots that are not banned and are resolved, and the i-th of them in
\* slot order
ResolvedSlots == {k \in 1..Len(results) : ~results[k].banned /\ results[k].best # None}
NthResolved(i) ==
    CHOOSE k \in ResolvedSlots : Cardinality({j \in ResolvedSlots : j < k}) = i - 1

\* C37: the 'clean' list of a 'detected' record is the entity ids of the
\* slots that are not banned and are resolved, in ascending slot order, cut
\* to the first 4; it holds no null and no entry of a banned slot.
C37_CleanList ==
    event.status = "detected" =>
        /\ Len(event.clean) =
               IF Cardinality(ResolvedSlots) < 4 THEN Cardinality(ResolvedSlots) ELSE 4
        /\ \A i \in 1..Len(event.clean) :
               /\ event.clean[i] = results[NthResolved(i)].best
               /\ event.clean[i] # None
               /\ ~results[NthResolved(i)].banned

\* five resolved slots: the record lists the first four
C37_Witness ==
    /\ rs_pc = "emitted"
    /\ Len(results) = 5
    /\ ResolvedSlots = 1..5
    /\ results[4].best = "B"
    /\ results[5].best = "A"
    /\ event.clean = <<"A", "A", "A", "B">>

\* C38: whenever the result of a slot names an entity, the score of that
\* entity is at least MIN_INLIERS and strictly greater than the score of
\* every other catalog entry, the entries discarded below the minimum
\* included; two entries that share the top score are never resolved to
\* either of them.
C38_StrictLeader ==
    [][(DecidesSlot /\ slot_match'.ran) =>
          LET r == results'[Len(results')]
              vb == slot_match'.v_best
              top == CHOOSE x \in {vb[h] : h \in Heroes} : \A h \in Heroes : vb[h] <= x
          IN  /\ r.best # None =>
                     /\ r.best \in Heroes
                     /\ r.score = vb[r.best]
                     /\ r.score >= MIN_INLIERS
                     /\ \A g \in Heroes \ {r.best} : vb[g] < r.score
              /\ Cardinality({h \in Heroes : vb[h] = top}) > 1 => r.best = None]_vars

\* a slot resolved to the entry that just reaches the minimum, the other
\* entry one match below it and discarded
C38_Witness ==
    /\ slot_match.ran
    /\ Len(results) >= 1
    /\ results[Len(results)].best = "A"
    /\ results[Len(results)].score = MIN_INLIERS
    /\ slot_match.v_best["A"] = MIN_INLIERS
    /\ slot_match.v_best["B"] = MIN_INLIERS - 1

(***************************************************************************)
(* Properties of the window-status lines (SpecStatus)                      *)
(***************************************************************************)
\* C39: among the lines 'window_found', 'window_minimized' and
\* 'window_not_found' of one run no two consecutive ones are equal, whatever
\* lies between them: a step writes at most one of them, and never the one
\* that was written last.
C39_StatusOnChange ==
    [][LET told == StatusLines(emitted')
       IN  /\ Len(told) <= 1
           /\ told # <<>> => told[1] # status_seen]_vars

\* the window has stayed in place over a cycle whose capture failed: the
\* status written last is still the 'window_found' of an earlier cycle
C39_Witness ==
    /\ cycle = "capture_error"
    /\ emitted = <<"capture_error">>
    /\ last_window_status = "window_found"
    /\ status_seen = "window_found"
    /\ now > 0

(***************************************************************************)
(* Properties of POST /auto_import/unit (SpecImport)                       *)
(***************************************************************************)
DocsOf(user, unit) ==
    {k \in 1..Len(image_stats) :
        image_stats[k].uploaded_by = user /\ image_stats[k].unit = unit}

\* C40 as stated: after any sequence and any interleaving of import requests
\* the ImageStats collection holds at most one document per (uploaded_by,
\* unit) pair.
C40_AsStated ==
    \A user \in Users, unit \in Heroes : Cardinality(DocsOf(user, unit)) <= 1
====
